---- MODULE Spec2Model ----
(***************************************************************************)
(* A model of mwcp.reporter.Reporter (src/mwcp/reporter.py): the metadata  *)
(* intake add_metadata with its cascade rules, the output file table,      *)
(* run_parser with its run-scoped log capture, and the cleanup.            *)
(*                                                                         *)
(* Representation.  A python string is a sequence of one-character         *)
(* strings, <<"a", ":", "8">>; a tuple value is a sequence of such         *)
(* strings.  A log message is a sequence of fragments: the fragments of    *)
(* the format string, field names and the formatted arguments.  Field      *)
(* names (the keys of metadata and of the schema) are TLA+ strings.        *)
(***************************************************************************)
EXTENDS Integers, Sequences, FiniteSets, TLC

\* ------------------------------------------------------------------ bounds
\* API calls (add_metadata, output_file, managed_tempdir, stdout.write) in a behaviour
\* of Spec
MaxCalls == 2
\* output_file calls in a behaviour of SpecOutput
MaxOutputs == 3
\* add_metadata calls in a behaviour of SpecReport
MaxReports == 3
\* run_parser calls in a behaviour
MaxRuns == 2
\* plugins the registry yields for one name
MaxPlugins == 2
\* add_metadata calls in a behaviour of SpecDerive
MaxDerive == 2
\* add_metadata calls in a behaviour of SpecDict
MaxDicts == 3
\* output_file calls in a behaviour of SpecCollide
MaxCollide == 30
\* calls that fill the store in a behaviour of SpecRender
MaxRender == 3
\* add_metadata calls with a malformed tuple
MaxMalformed == 2
\* add_metadata calls with a socket address
MaxSockets == 2

\* ------------------------------------------------------- logging levels
INFO == 20
WARNING == 30
ERROR == 40

\* ------------------------------------------------------- character classes
LowerAlpha == {"a", "b", "c", "d", "e", "f", "g", "h", "i", "j", "k", "l", "m",
               "n", "o", "p", "q", "r", "s", "t", "u", "v", "w", "x", "y", "z"}
Digits == {"0", "1", "2", "3", "4", "5", "6", "7", "8", "9"}
HexChars == Digits \cup {"a", "b", "c", "d", "e", "f", "A", "B", "C", "D", "E", "F"}

\* ------------------------------------------------------- string helpers
\* s[from:] of python, 0 <= from
Tail0(s, from) == IF from >= Len(s) THEN <<>> ELSE SubSeq(s, from + 1, Len(s))

\* s[:to] of python, 0 <= to
Head0(s, to) == SubSeq(s, 1, IF to > Len(s) THEN Len(s) ELSE to)

\* str.find(sub): the 1-based index of the first occurrence of sub in s, 0 when absent
FindSub(s, sub) ==
  LET hits == {i \in 1..(Len(s) - Len(sub) + 1) : SubSeq(s, i, i + Len(sub) - 1) = sub}
  IN IF hits = {} THEN 0 ELSE CHOOSE i \in hits : \A j \in hits : i <= j

\* str.partition(sep): <<before, found, after>>
Partition(s, sep) ==
  LET i == FindSub(s, sep)
  IN IF i = 0 THEN <<s, FALSE, <<>>>>
     ELSE <<SubSeq(s, 1, i - 1), TRUE, SubSeq(s, i + Len(sep), Len(s))>>

\* str.rstrip(chars)
RStrip(s, chars) ==
  LET keep == {i \in 1..Len(s) : s[i] \notin chars}
  IN IF keep = {} THEN <<>> ELSE SubSeq(s, 1, CHOOSE i \in keep : \A j \in keep : j <= i)

\* the length of the longest prefix of s[from..] (1-based) whose characters are not in stop
RunLen(s, from, stop) ==
  LET ends == {i \in from..Len(s) : s[i] \in stop}
  IN IF ends = {} THEN Len(s) - from + 1
     ELSE (CHOOSE i \in ends : \A j \in ends : i <= j) - from

\* mwcp.utils.stringutils.convert_to_unicode: the model's strings are unicode
\* already, and unicode input is returned as it is
convert_to_unicode(s) == s

\* ------------------------------------------------------- regular expressions
\* URL_RE = [a-z\.-]{1,40}://(?P<address>\[?[^/]+\]?)(?P<path>/[^?]+)?
SchemeChars == LowerAlpha \cup {".", "-"}

\* the positions k of a "://" that follows a scheme character and is followed by
\* a character other than "/" ([^/]+ needs one): where URL_RE can match
URL_RE_starts(v) ==
  {k \in 2..(Len(v) - 3) : /\ v[k] = ":" /\ v[k + 1] = "/" /\ v[k + 2] = "/"
                           /\ v[k - 1] \in SchemeChars
                           /\ v[k + 3] # "/"}

\* URL_RE.search(v): the leftmost match.  address is the greedy run of
\* characters other than "/" (the optional brackets are inside the group), path is
\* "/" and the greedy run of at least one character other than "?"; path = <<>>
\* stands for a group that did not take part (None).
URL_RE_search(v) ==
  LET ks == URL_RE_starts(v)
  IN IF ks = {} THEN [ok |-> FALSE, address |-> <<>>, path |-> <<>>]
     ELSE LET k == CHOOSE i \in ks : \A j \in ks : i <= j
              a == k + 3
              alen == RunLen(v, a, {"/"})
              p == a + alen
              haspath == p + 1 <= Len(v) /\ v[p + 1] # "?"
              plen == 1 + RunLen(v, p + 1, {"?"})
          IN [ok |-> TRUE,
              address |-> SubSeq(v, a, a + alen - 1),
              path |-> IF haspath THEN SubSeq(v, p, p + plen - 1) ELSE <<>>]

\* PORT_RE = [0-9]{1,5}; PORT_RE.search(v) finds a match iff v holds a digit
PORT_RE_search(v) == \E i \in 1..Len(v) : v[i] \in Digits

\* SHA1_RE = [0-9a-fA-F]{40}; SHA1_RE.match(v) anchors at the start of v
SHA1_RE_match(v) == Len(v) >= 40 /\ \A i \in 1..40 : v[i] \in HexChars

\* ------------------------------------------------------- int()
DigitValue(c) ==
  CASE c = "0" -> 0 [] c = "1" -> 1 [] c = "2" -> 2 [] c = "3" -> 3 [] c = "4" -> 4
    [] c = "5" -> 5 [] c = "6" -> 6 [] c = "7" -> 7 [] c = "8" -> 8 [] c = "9" -> 9

\* str.strip() restricted to the blank
Strip(s) ==
  LET keep == {i \in 1..Len(s) : s[i] # " "}
  IN IF keep = {} THEN <<>>
     ELSE SubSeq(s, CHOOSE i \in keep : \A j \in keep : i <= j,
                    CHOOSE i \in keep : \A j \in keep : j <= i)

\* the digits of a stripped numeral, its sign removed
IntDigits(s) ==
  LET t == Strip(s)
  IN IF Len(t) > 0 /\ t[1] \in {"+", "-"} THEN Tail(t) ELSE t

\* int(s) succeeds (otherwise it raises ValueError)
IntOk(s) == LET d == IntDigits(s) IN Len(d) > 0 /\ \A i \in 1..Len(d) : d[i] \in Digits

RECURSIVE DecimalValue(_)
DecimalValue(d) ==
  IF Len(d) = 0 THEN 0 ELSE 10 * DecimalValue(SubSeq(d, 1, Len(d) - 1)) + DigitValue(d[Len(d)])

\* int(s) for a string IntOk accepts
IntValue(s) ==
  LET t == Strip(s)
  IN IF t[1] = "-" THEN 0 - DecimalValue(IntDigits(s)) ELSE DecimalValue(IntDigits(s))

\* ------------------------------------------------------- ntpath
NtSeps == {"\\", "/"}

\* ntpath.splitdrive(p): the length of the drive part (a drive letter with its
\* colon, or a UNC share \\host\share)
ntpath_splitdrive(p) ==
  IF Len(p) < 2 THEN 0
  ELSE IF p[1] \in NtSeps /\ p[2] \in NtSeps /\ (Len(p) < 3 \/ p[3] \notin NtSeps)
  THEN LET s1 == {i \in 3..Len(p) : p[i] \in NtSeps}
       IN IF s1 = {} THEN 0
          ELSE LET index == CHOOSE i \in s1 : \A j \in s1 : i <= j
                   s2 == {i \in (index + 1)..Len(p) : p[i] \in NtSeps}
               IN IF s2 = {} THEN Len(p)
                  ELSE LET index2 == CHOOSE i \in s2 : \A j \in s2 : i <= j
                       IN IF index2 = index + 1 THEN 0 ELSE index2 - 1
  ELSE IF p[2] = ":" THEN 2 ELSE 0

\* ntpath.split of the drive d and the rest of the path: <<head, tail>>, the
\* tail being what follows the last separator
ntpath_split_rest(d, rest) ==
  LET sp == {i \in 1..Len(rest) : rest[i] \in NtSeps}
      i == IF sp = {} THEN 0 ELSE CHOOSE x \in sp : \A y \in sp : y <= x
      stripped == RStrip(Head0(rest, i), NtSeps)
  IN <<d \o (IF stripped = <<>> THEN Head0(rest, i) ELSE stripped), Tail0(rest, i)>>

\* ntpath.split(p): <<head, tail>>
ntpath_split(p) ==
  ntpath_split_rest(Head0(p, ntpath_splitdrive(p)), Tail0(p, ntpath_splitdrive(p)))

ntpath_basename(p) == ntpath_split(p)[2]

\* the head as everything before the last separator, the separator excluded
ntpath_dirname_raw(p) ==
  LET sp == {i \in 1..Len(p) : p[i] \in NtSeps}
  IN IF sp = {} THEN <<>> ELSE Head0(p, (CHOOSE x \in sp : \A y \in sp : y <= x) - 1)

ntpath_dirname(p) == ntpath_split(p)[1]

\* os.path.basename (posixpath): what follows the last "/"
os_path_basename(p) ==
  LET sp == {i \in 1..Len(p) : p[i] = "/"}
  IN IF sp = {} THEN p ELSE Tail0(p, CHOOSE x \in sp : \A y \in sp : y <= x)

\* ------------------------------------------------------- the field schema
\* self.fields, loaded from fields.json: field name -> type
ListOfStringsFields ==
  {"debug", "mutex", "filepath", "filename", "directory", "c2_url", "url", "urlpath",
   "c2_address", "proxy_address", "address", "serviceimage", "servicedll",
   "ssl_cer_sha1", "username", "password", "servicename", "servicedisplayname",
   "servicedescription", "registrypath", "registrydata"}

ListOfStringTuplesFields ==
  {"proxy", "rsa_private_key", "rsa_public_key", "registrypathdata", "service",
   "credential", "c2_socketaddress", "proxy_socketaddress", "socketaddress",
   "port", "listenport", "ftp", "outputfile"}

DictOfStringsFields == {"other"}

fields ==
  [k \in ListOfStringsFields \cup ListOfStringTuplesFields \cup DictOfStringsFields |->
     [type |-> IF k \in ListOfStringsFields THEN "listofstrings"
               ELSE IF k \in ListOfStringTuplesFields THEN "listofstringtuples"
               ELSE "dictofstrings"]]

\* ------------------------------------------------------------------ state
VARIABLES
  metadata,        \* self.metadata: field name -> list of strings, list of tuples, or map
  key_order,       \* the keys of self.metadata in the order of their insertion
  errors,          \* self.errors: list of messages
  outputfiles,     \* self.outputfiles: stored name -> record
  input_file,      \* self.input_file: "None" or "FileObject"
  log_handler,     \* self._log_handler: 0 (None) or the handler's identity
  managed_tempdir, \* self._managed_tempdir: 0 (None) or the directory's identity
  cfg,             \* the constructor's options
  root_handlers,   \* the ReporterLogHandlers attached to logging.root
  stdout,          \* sys.stdout: "orig" or "_LogWriter"
  fs_tempdirs,     \* the managed temporary directories that exist on disk
  pc,              \* "idle", or "parse" while a plugin's parse() is running
  plugins,         \* the parsers mwcp.iter_parsers(name) yields for the current run
  idx,             \* the position in plugins of the parser that is running
  invoked,         \* the parsers whose parse() the current run has called, in order
  raised,          \* the parsers of the current run whose parse() raised and was caught
  result,          \* the last call: its name, its return value, the exception it raised
  recorded,        \* the <<filename, data>> of the output_file calls since the last reset
  ncalls,          \* the API calls made so far
  nruns            \* the run_parser calls made so far

vars == <<metadata, key_order, errors, outputfiles, input_file, log_handler, managed_tempdir, cfg,
          root_handlers, stdout, fs_tempdirs, pc, plugins, idx, invoked, raised,
          result, recorded, ncalls, nruns>>

\* no exception pending
NoExc == ""

\* ------------------------------------------------------------------ logging
\* the effective level of the logger "mwcp.reporter": records from INFO up reach
\* the handlers of the root logger
log_level == INFO

\* mwcp.utils.logutil.LevelCharFilter: the level_char of a record
level_char(levelno) ==
  IF levelno >= ERROR THEN "!" ELSE IF levelno >= WARNING THEN "-" ELSE "+"

\* logging.Formatter("[%(level_char)s] %(message)s").format(record); exc names
\* the exception of logger.exception, whose traceback the formatter appends
format(levelno, message, exc) ==
  <<"[", level_char(levelno), "] ">> \o message
    \o (IF exc = NoExc THEN <<>> ELSE <<"\nTraceback (most recent call last): ", exc>>)

RECURSIVE add_metadata(_, _, _, _)

\* The operations below act on s = [md, order, errs, of, exc, n, fired]:
\* self.metadata and the insertion order of its keys, self.errors,
\* self.outputfiles, the exception that is propagating (NoExc: none), the number
\* of ReporterLogHandlers attached to the root logger, and the cascade rules
\* applied so far.

\* emit with the comparison levelno >= WARNING in place of levelno > WARNING
emit_from_warning(s, levelno, message) ==
  IF levelno >= WARNING
  THEN [s EXCEPT !.errs = Append(@, message)]
  ELSE IF INFO <= levelno /\ levelno <= WARNING
  THEN add_metadata(s, "debug", "str", message)
  ELSE s

\* ReporterLogHandler.emit
emit(s, levelno, message) ==
  IF levelno > WARNING
  THEN [s EXCEPT !.errs = Append(@, message)]
  ELSE IF INFO <= levelno /\ levelno <= WARNING
  THEN add_metadata(s, "debug", "str", message)
  ELSE s

\* Logger.callHandlers: the record goes to each of the n attached handlers in turn;
\* an exception out of emit ends the call
RECURSIVE callHandlers(_, _, _, _)
callHandlers(s, levelno, message, n) ==
  IF n = 0 \/ s.exc # NoExc THEN s
  ELSE callHandlers(emit(s, levelno, message), levelno, message, n - 1)

\* logger.info / warn / error / exception(message)
Log(s, levelno, message, exc) ==
  IF levelno < log_level THEN s
  ELSE callHandlers(s, levelno, format(levelno, message, exc), s.n)

\* the block of a cascade rule is entered: fired lists the rules applied since
\* the caller's call began, those of derived adds included
fire(s, rule) == [s EXCEPT !.fired = Append(@, rule)]

\* ------------------------------------------------------- listofstrings
\* store_listofstrings without the test "value not in obj"
store_listofstrings_append(s, key, value) ==
  LET obj == IF key \in DOMAIN s.md THEN s.md[key] ELSE <<>>
  IN [s EXCEPT !.md = (key :> Append(obj, value)) @@ s.md,
               !.order = IF key \in DOMAIN s.md THEN @ ELSE Append(@, key)]

\* obj = self.metadata.setdefault(key, []); append unless present (always for debug)
store_listofstrings(s, key, value) ==
  LET obj == IF key \in DOMAIN s.md THEN s.md[key] ELSE <<>>
      new == IF key = "debug" \/ ~(\E i \in 1..Len(obj) : obj[i] = value)
             THEN Append(obj, value) ELSE obj
  IN [s EXCEPT !.md = (key :> new) @@ s.md,
               !.order = IF key \in DOMAIN s.md THEN @ ELSE Append(@, key)]

\* filepath: filename and directory by ntpath
rule_filepath(s, key, value) ==
  IF s.exc # NoExc \/ key # "filepath" THEN s
  ELSE add_metadata(add_metadata(fire(s, "filepath"), "filename", "str",
                                 ntpath_basename(value)),
                    "directory", "str", ntpath_dirname(value))

\* the c2_url rule without its add of url
rule_c2_url_none(s, key, value) == s

\* c2_url: url
rule_c2_url(s, key, value) ==
  IF s.exc # NoExc \/ key # "c2_url" THEN s
  ELSE add_metadata(fire(s, "c2_url"), "url", "str", value)

\* c2_address, proxy_address: address
rule_address(s, key, value) ==
  IF s.exc # NoExc \/ key \notin {"c2_address", "proxy_address"} THEN s
  ELSE add_metadata(fire(s, "address"), "address", "str", value)

\* serviceimage: filepath up to the first .exe
rule_serviceimage(s, key, value) ==
  LET i == FindSub(value, <<".", "e", "x", "e">>)
  IN IF s.exc # NoExc \/ key # "serviceimage" THEN s
     ELSE IF i = 0 THEN fire(s, "serviceimage")
     ELSE add_metadata(fire(s, "serviceimage"), "filepath", "str", Head0(value, (i - 1) + 4))

\* servicedll: filepath
rule_servicedll(s, key, value) ==
  IF s.exc # NoExc \/ key # "servicedll" THEN s
  ELSE add_metadata(fire(s, "servicedll"), "filepath", "str", value)

\* ssl_cer_sha1: validated only
rule_ssl_cer_sha1(s, key, value) ==
  IF s.exc # NoExc \/ key # "ssl_cer_sha1" THEN s
  ELSE IF SHA1_RE_match(value) THEN fire(s, "ssl_cer_sha1")
  ELSE Log(fire(s, "ssl_cer_sha1"), ERROR, <<"Invalid SHA1 hash found: ">> \o value, NoExc)

\* url, c2_url: urlpath, and the socket address or the address
\* the address group of a url: the socket address, or the address; s1 is the
\* reporter after the urlpath
rule_url_address(s1, key, match_address) ==
  LET address == RStrip(match_address, {":", " "})
      part == IF Len(address) > 0 /\ address[1] = "["
              THEN Partition(Tail(address), <<"]", ":">>)
              ELSE Partition(address, <<":">>)
      domain == part[1]
      found == part[2]
      port == part[3]
  IN IF s1.exc # NoExc \/ match_address = <<>> THEN s1
     ELSE IF found
     THEN IF port # <<>>
          THEN add_metadata(s1,
                 IF key = "c2_url" THEN "c2_socketaddress" ELSE "socketaddress",
                 "tuple", <<domain, port, <<"t", "c", "p">>>>)
          ELSE Log(s1, ERROR,
                   <<"Invalid URL ">> \o address \o <<" found ':' at end without a port.">>,
                   NoExc)
     ELSE add_metadata(s1, IF key = "c2_url" THEN "c2_address" ELSE "address",
                       "str", address)

\* the groups of a url that URL_RE matched
rule_url_match(s, key, match) ==
  rule_url_address(IF match.path # <<>>
                   THEN add_metadata(s, "urlpath", "str", match.path) ELSE s,
                   key, match.address)

rule_url(s, key, value) ==
  IF s.exc # NoExc \/ key \notin {"url", "c2_url"} THEN s
  ELSE IF ~URL_RE_search(value).ok
  THEN Log(fire(s, "url"), ERROR, <<"Error parsing as url: ">> \o value, NoExc)
  ELSE rule_url_match(fire(s, "url"), key, URL_RE_search(value))

\* the rules of a stored string v, in the order of the code
rules_listofstrings(s, key, v) ==
  rule_url(
    rule_ssl_cer_sha1(
      rule_servicedll(
        rule_serviceimage(
          rule_address(
            rule_c2_url(
              rule_filepath(s, key, v), key, v), key, v), key, v), key, v), key, v), key, v)

add_metatadata_listofstrings(s, key, value) ==
  IF value = <<>>
  THEN Log(s, INFO, <<"no values provided for ", key, ", skipping">>, NoExc)
  ELSE rules_listofstrings(store_listofstrings(s, key, convert_to_unicode(value)), key,
                           convert_to_unicode(value))

\* ------------------------------------------------------- listofstringtuples
\* expected_size: the fields whose shorter tuples are padded (0: not padded)
expected_size(key) ==
  IF key = "proxy" THEN 5 ELSE IF key = "rsa_private_key" THEN 8 ELSE 0

\* no padding: the tuple as reported
pad_values_none(key, values) == values

\* tuple(values) + ('',) * (expected_size[key] - len(values))
pad_values(key, values) ==
  IF expected_size(key) > Len(values)
  THEN values \o [i \in 1..(expected_size(key) - Len(values)) |-> <<>>]
  ELSE values

\* obj = self.metadata.setdefault(key, []); append unless present
store_listofstringtuples(s, key, values) ==
  LET obj == IF key \in DOMAIN s.md THEN s.md[key] ELSE <<>>
      new == IF \E i \in 1..Len(obj) : obj[i] = values THEN obj ELSE Append(obj, values)
  IN [s EXCEPT !.md = (key :> new) @@ s.md,
               !.order = IF key \in DOMAIN s.md THEN @ ELSE Append(@, key)]

subfield_map(key) ==
  IF key = "registrypathdata" THEN <<"registrypath", "registrydata">>
  ELSE IF key = "service"
  THEN <<"servicename", "servicedisplayname", "servicedescription", "serviceimage",
         "servicedll">>
  ELSE IF key = "credential" THEN <<"username", "password">>
  ELSE <<>>

\* for subfield, _value in zip(subfields, values): add the non-empty ones, from i on
RECURSIVE add_subfields(_, _, _, _)
add_subfields(s, subfields, values, i) ==
  IF s.exc # NoExc \/ i > Len(subfields) \/ i > Len(values) THEN s
  ELSE add_subfields(IF values[i] # <<>>
                     THEN add_metadata(s, subfields[i], "str", values[i]) ELSE s,
                     subfields, values, i + 1)

\* the warning of a tuple whose length is not that of the subfields; s1 is the
\* reporter after the subfields
rule_subfields_length(s1, key, values, subfields) ==
  IF s1.exc = NoExc /\ Len(values) # Len(subfields)
  THEN Log(s1, WARNING,
           <<"Expected ", ToString(Len(subfields)), " values in type ", key,
             ", received ", ToString(Len(values))>>, NoExc)
  ELSE s1

rule_subfields(s, key, values) ==
  IF s.exc # NoExc \/ subfield_map(key) = <<>> THEN s
  ELSE rule_subfields_length(add_subfields(fire(s, "subfields"), subfield_map(key), values, 1),
                             key, values, subfield_map(key))

\* the rule of c2_socketaddress and proxy_socketaddress without the address of the kind
rule_x_socketaddress_only(s, key, values) ==
  IF s.exc # NoExc \/ key \notin {"c2_socketaddress", "proxy_socketaddress"} THEN s
  ELSE add_metadata(s, "socketaddress", "tuple", values)

\* c2_socketaddress, proxy_socketaddress: socketaddress and the address of the kind
rule_x_socketaddress(s, key, values) ==
  IF s.exc # NoExc \/ key \notin {"c2_socketaddress", "proxy_socketaddress"} THEN s
  ELSE add_metadata(add_metadata(fire(s, key), "socketaddress", "tuple", values),
                    IF key = "c2_socketaddress" THEN "c2_address" ELSE "proxy_address",
                    "str", values[1])

\* the socketaddress rule without its add of the port
rule_socketaddress_no_port(s, key, values) ==
  IF s.exc # NoExc \/ key # "socketaddress" THEN s
  ELSE add_metadata(s, "address", "str", values[1])

\* the socketaddress rule rejecting a tuple that has not three components
rule_socketaddress_strict(s, key, values) ==
  IF s.exc # NoExc \/ key # "socketaddress" THEN s
  ELSE IF Len(values) # 3
  THEN Log(s, WARNING,
           <<"Expected three values in type socketaddress, received ",
             ToString(Len(values))>>, NoExc)
  ELSE add_metadata(add_metadata(s, "address", "str", values[1]),
                    "port", "tuple", Tail0(values, 1))

\* socketaddress: address and port
rule_socketaddress(s, key, values) ==
  IF s.exc # NoExc \/ key # "socketaddress" THEN s
  ELSE
    add_metadata(add_metadata(IF Len(values) # 3
                              THEN Log(fire(s, "socketaddress"), WARNING,
                                       <<"Expected three values in type socketaddress, received ",
                                         ToString(Len(values))>>, NoExc)
                              ELSE fire(s, "socketaddress"),
                              "address", "str", values[1]),
                 "port", "tuple", Tail0(values, 1))

PortWarning == <<"Expected port to be number between 0 and 65535">>

\* port, listenport: validated only; int() raises ValueError on what is no numeral
\* the test of the port number; s1 is the reporter after the test of the length
rule_port_number(s1, values) ==
  IF s1.exc # NoExc THEN s1
  ELSE IF PORT_RE_search(values[1])
  THEN IF ~IntOk(values[1]) THEN [s1 EXCEPT !.exc = "ValueError"]
       ELSE IF IntValue(values[1]) < 0 \/ IntValue(values[1]) > 65535
       THEN Log(s1, WARNING, PortWarning, NoExc)
       ELSE s1
  ELSE Log(s1, WARNING, PortWarning, NoExc)

\* the test of the protocol; s2 is the reporter after the test of the number
rule_port_type(s2, values) ==
  IF s2.exc = NoExc /\ Len(values) >= 2
     /\ values[2] \notin {<<"t", "c", "p">>, <<"u", "d", "p">>, <<"i", "c", "m", "p">>}
  THEN Log(s2, WARNING, <<"Expected port type to be tcp or udp (or icmp)">>, NoExc)
  ELSE s2

rule_port(s, key, values) ==
  IF s.exc # NoExc \/ key \notin {"port", "listenport"} THEN s
  ELSE rule_port_type(
         rule_port_number(IF Len(values) # 2
                          THEN Log(fire(s, "port"), WARNING,
                                   <<"Expected two values in type ", key, ", received ",
                                     ToString(Len(values))>>, NoExc)
                          ELSE fire(s, "port"),
                          values),
         values)

\* proxy: credential, and proxy_address or proxy_socketaddress
rule_proxy(s, key, values) ==
  IF s.exc # NoExc \/ key # "proxy" THEN s
  ELSE
    add_metadata(add_metadata(IF Len(values) # 5
                              THEN Log(fire(s, "proxy"), WARNING,
                                       <<"Expected 5 values in type ", key, ", received ",
                                         ToString(Len(values))>>, NoExc)
                              ELSE fire(s, "proxy"),
                              "credential", "tuple", Head0(values, 2)),
                    IF Len(Tail0(values, 2)) = 1 THEN "proxy_address" ELSE "proxy_socketaddress",
                    IF Len(Tail0(values, 2)) = 1 THEN "str" ELSE "tuple",
                    IF Len(Tail0(values, 2)) = 1 THEN values[3] ELSE Tail0(values, 2))

\* the url of an ftp tuple added as a c2_url, whose rule adds the url
rule_ftp_url_as_c2_url(s2, values) ==
  IF Len(values) >= 3 THEN add_metadata(s2, "c2_url", "str", values[3]) ELSE s2

\* the url of an ftp tuple; s2 is the reporter after the credential
rule_ftp_url(s2, values) ==
  IF Len(values) >= 3 THEN add_metadata(s2, "url", "str", values[3]) ELSE s2

\* ftp: credential and url
rule_ftp(s, key, values) ==
  IF s.exc # NoExc \/ key # "ftp" THEN s
  ELSE
    rule_ftp_url(add_metadata(IF Len(values) # 3
                              THEN Log(fire(s, "ftp"), WARNING,
                                       <<"Expected 3 values in type ", key, ", received ",
                                         ToString(Len(values))>>, NoExc)
                              ELSE fire(s, "ftp"),
                              "credential", "tuple", Head0(values, 2)),
                 values)

\* rsa_public_key, rsa_private_key: the length is validated only
rule_rsa(s, key, values) ==
  IF s.exc # NoExc \/ key \notin {"rsa_public_key", "rsa_private_key"} THEN s
  ELSE IF key = "rsa_public_key" /\ Len(values) # 2
  THEN Log(fire(s, key), WARNING,
           <<"Expected 3 values in type ", key, ", received ", ToString(Len(values))>>,
           NoExc)
  ELSE IF key = "rsa_private_key" /\ Len(values) # 8
  THEN Log(fire(s, key), WARNING,
           <<"Expected 8 values in type ", key, ", received ", ToString(Len(values))>>,
           NoExc)
  ELSE fire(s, key)

\* the rules of a stored tuple, in the order of the code
rules_listofstringtuples(s, key, values) ==
  rule_rsa(
    rule_ftp(
      rule_proxy(
        rule_port(
          rule_socketaddress(
            rule_x_socketaddress(
              rule_subfields(s, key, values),
              key, values), key, values), key, values), key, values), key, values),
    key, values)

\* the padded tuple, each component converted
converted_values(key, values0) ==
  [i \in 1..Len(pad_values(key, values0)) |-> convert_to_unicode(pad_values(key, values0)[i])]

add_metadata_listofstringtuples(s, key, values0) ==
  rules_listofstringtuples(store_listofstringtuples(s, key, converted_values(key, values0)),
                           key, converted_values(key, values0))

\* ------------------------------------------------------- dictofstrings
\* A mapping argument is the sequence of its items in iteration order, each
\* [k, isstr, v, subexc, subtype]: the sub-key, whether the value is a string
\* (bytes, str), the value, and what subvalue[subkey] gives for a value that is not.
\* A stored sub-key holds [islist, vals]: a single string (vals of length 1) or a list.
\* the merge that replaces what the sub-key held
merge_dictofstrings_clobber(obj, subkey, subvalue) ==
  (subkey :> [islist |-> FALSE, vals |-> <<subvalue>>]) @@ obj

merge_dictofstrings(obj, subkey, subvalue) ==
  IF subkey \in DOMAIN obj
  THEN LET existing_value == obj[subkey]
       IN IF existing_value.islist
          THEN IF \E i \in 1..Len(existing_value.vals) : existing_value.vals[i] = subvalue
               THEN obj
               ELSE [obj EXCEPT ![subkey].vals = Append(@, subvalue)]
          ELSE IF subvalue # existing_value.vals[1]
          THEN [obj EXCEPT ![subkey] =
                  [islist |-> TRUE, vals |-> <<existing_value.vals[1], subvalue>>]]
          ELSE obj
  ELSE (subkey :> [islist |-> FALSE, vals |-> <<subvalue>>]) @@ obj

\* the else branch of the loop: the warning's argument str(type(subvalue[subkey]))
\* is evaluated first.  subexc is the exception subvalue[subkey] raises (TypeError
\* for a number, or for a list indexed by a string; KeyError for a mapping without
\* the sub-key), NoExc when the value can be indexed by the sub-key; subtype is
\* then the name of the type found.
warn_not_string(s, item) ==
  IF item.subexc # NoExc THEN [s EXCEPT !.exc = item.subexc]
  ELSE Log(s, WARNING, <<"Could not add object of ", item.subtype,
                         " to metadata under other using key ">> \o item.k, NoExc)

\* for subkey, subvalue in value.items(), from item i on
RECURSIVE add_dict_items(_, _, _, _)
add_dict_items(s, key, items, i) ==
  IF s.exc # NoExc \/ i > Len(items) THEN s
  ELSE IF items[i].isstr
  THEN LET obj == IF key \in DOMAIN s.md THEN s.md[key] ELSE <<>>
           new == merge_dictofstrings(obj, convert_to_unicode(items[i].k),
                                      convert_to_unicode(items[i].v))
       IN add_dict_items([s EXCEPT !.md = (key :> new) @@ s.md,
                                   !.order = IF key \in DOMAIN s.md THEN @
                                             ELSE Append(@, key)],
                         key, items, i + 1)
  ELSE add_dict_items(warn_not_string(s, items[i]), key, items, i + 1)

add_metadata_dictofstrings(s, key, value) == add_dict_items(s, key, value, 1)

\* ------------------------------------------------------- the rule graph
\* the rule graph with a rule that adds c2_address for every address
rule_targets_cyclic(key) ==
  IF key = "address" THEN {"c2_address"}
  ELSE IF key = "c2_address" THEN {"address"}
  ELSE {}

\* the fields a cascade rule of key adds by a call of add_metadata
rule_targets(key) ==
  CASE key = "filepath" -> {"filename", "directory"}
    [] key = "c2_url" -> {"url", "urlpath", "c2_socketaddress", "c2_address"}
    [] key = "url" -> {"urlpath", "socketaddress", "address"}
    [] key \in {"c2_address", "proxy_address"} -> {"address"}
    [] key \in {"serviceimage", "servicedll"} -> {"filepath"}
    [] key \in {"registrypathdata", "service", "credential"} ->
         {subfield_map(key)[i] : i \in 1..Len(subfield_map(key))}
    [] key = "c2_socketaddress" -> {"socketaddress", "c2_address"}
    [] key = "proxy_socketaddress" -> {"socketaddress", "proxy_address"}
    [] key = "socketaddress" -> {"address", "port"}
    [] key = "proxy" -> {"credential", "proxy_address", "proxy_socketaddress"}
    [] key = "ftp" -> {"credential", "url"}
    [] OTHER -> {}

\* the fields reached from keys by at most n further rules
RECURSIVE rule_closure(_, _)
rule_closure(keys, n) ==
  IF n = 0 \/ UNION {rule_targets(k) : k \in keys} \subseteq keys THEN keys
  ELSE rule_closure(keys \cup UNION {rule_targets(k) : k \in keys}, n - 1)

\* the fields a report of key can lead to, by one rule or more
derived_fields(key) == rule_closure(rule_targets(key), Cardinality(DOMAIN fields))

\* ------------------------------------------------------- add_metadata
\* value is None or all(not _value for _value in value): a string iterates its
\* characters, a tuple its components, a mapping its keys
IsEmptyValue(typ, value) ==
  CASE typ = "none" -> TRUE
    [] typ = "str" -> Len(value) = 0
    [] typ = "tuple" -> \A i \in 1..Len(value) : Len(value[i]) = 0
    [] typ = "dict" -> \A i \in 1..Len(value) : Len(value[i].k) = 0

\* the dispatch on the field's type, inside the try
add_metadata_dispatch(s, keyu, value) ==
  LET fieldtype == fields[keyu].type
  IN IF fieldtype = "listofstrings" THEN add_metatadata_listofstrings(s, keyu, value)
     ELSE IF fieldtype = "listofstringtuples"
     THEN add_metadata_listofstringtuples(s, keyu, value)
     ELSE add_metadata_dictofstrings(s, keyu, value)

\* add_metadata without the except clause: the exception goes on to the caller
add_metadata_reraise(r, keyu) == r

\* except Exception: logger.exception(...), r being the reporter as the try block
\* left it
add_metadata_except(r, keyu) ==
  IF r.exc # NoExc
  THEN Log([r EXCEPT !.exc = NoExc], ERROR, <<"Error adding metadata for key: ", keyu>>, r.exc)
  ELSE r

\* add_metadata with the test of the key moved inside the try: the KeyError is
\* caught and logged
add_metadata_caught(s, key, typ, value) ==
  LET keyu == convert_to_unicode(key)
  IN IF s.exc # NoExc THEN s
     ELSE IF IsEmptyValue(typ, value)
     THEN Log(s, WARNING, <<"no values provided for ", key, ", skipping">>, NoExc)
     ELSE IF keyu \notin DOMAIN fields
     THEN Log(s, ERROR, <<"Error adding metadata for key: ", keyu>>, "KeyError")
     ELSE add_metadata_except(add_metadata_dispatch(s, keyu, value), keyu)

\* add_metadata without the test of the key: an unknown key is stored as a list
add_metadata_unchecked(s, key, typ, value) ==
  LET keyu == convert_to_unicode(key)
  IN IF s.exc # NoExc THEN s
     ELSE IF IsEmptyValue(typ, value)
     THEN Log(s, WARNING, <<"no values provided for ", key, ", skipping">>, NoExc)
     ELSE IF keyu \notin DOMAIN fields
     THEN store_listofstrings(s, keyu, value)
     ELSE add_metadata_except(add_metadata_dispatch(s, keyu, value), keyu)

\* Reporter.add_metadata(key, value); typ is the
\* python type of value ("none", "str", "tuple", "dict").  A call made while an
\* exception is pending (s.exc) does not happen.
add_metadata(s, key, typ, value) ==
  LET keyu == convert_to_unicode(key)
  IN IF s.exc # NoExc THEN s
     ELSE IF IsEmptyValue(typ, value)
     THEN Log(s, WARNING, <<"no values provided for ", key, ", skipping">>, NoExc)
     ELSE IF keyu \notin DOMAIN fields
     THEN [s EXCEPT !.exc = "KeyError"]
     ELSE add_metadata_except(add_metadata_dispatch(s, keyu, value), keyu)

\* ------------------------------------------------------- output_file
\* hashlib.md5(data).hexdigest() of the sample contents
md5_hexdigest(data) ==
  CASE data = "d1" ->
         <<"9", "9", "4", "8", "c", "6", "4", "5", "c", "0", "9", "4", "2", "4", "7", "7",
           "9", "4", "f", "4", "c", "7", "a", "c", "d", "b", "e", "b", "2", "b", "b", "6">>
    [] data = "d75" ->
         <<"c", "d", "8", "b", "5", "2", "c", "a", "a", "8", "d", "2", "2", "1", "2", "c",
           "6", "b", "4", "5", "0", "f", "9", "f", "b", "4", "f", "7", "1", "d", "9", "5">>
    [] data = "d1970" ->
         <<"c", "d", "8", "b", "5", "9", "0", "1", "2", "a", "5", "1", "c", "e", "d", "d",
           "1", "d", "3", "6", "1", "8", "9", "4", "3", "7", "7", "8", "7", "7", "a", "0">>
    [] data = "sample" ->
         <<"5", "e", "8", "f", "f", "9", "b", "f", "5", "5", "b", "a", "3", "5", "0", "8",
           "1", "9", "9", "d", "2", "2", "e", "9", "8", "4", "1", "2", "9", "b", "e", "6">>

\* base64.b64encode(data) of the sample contents
b64encode(data) ==
  CASE data = "d1" -> <<"Z", "D", "E", "=">>
    [] data = "d75" -> <<"Z", "D", "c", "1">>
    [] data = "d1970" -> <<"Z", "D", "E", "5", "N", "z", "A", "=">>

\* the first suffix length of the rename loop, and the length the assert allows
FirstNumChar == 5
MaxNumChar == 32

\* the while loop of output_file: the name the data goes to ("store"), the name that
\* holds the same md5 already ("duplicate"), or the assert failing ("assert")
RECURSIVE resolve_filename(_, _, _, _, _)
\* the loop comparing the md5 with the record of the original name only
resolve_filename_first_only(of, orig_filename, filename, md5, num_char) ==
  IF filename \notin DOMAIN of THEN [kind |-> "store", filename |-> filename]
  ELSE IF filename = orig_filename /\ md5 = of[filename].md5
  THEN [kind |-> "duplicate", filename |-> filename]
  ELSE IF ~(num_char <= MaxNumChar) THEN [kind |-> "assert", filename |-> filename]
  ELSE resolve_filename(of, orig_filename,
                        orig_filename \o <<"_">> \o Head0(md5, num_char), md5, num_char + 1)

\* no loop: a name that is taken by other data is used again
resolve_filename_overwrite(of, orig_filename, filename, md5, num_char) ==
  IF filename \notin DOMAIN of THEN [kind |-> "store", filename |-> filename]
  ELSE IF md5 = of[filename].md5 THEN [kind |-> "duplicate", filename |-> filename]
  ELSE [kind |-> "store", filename |-> filename]

resolve_filename(of, orig_filename, filename, md5, num_char) ==
  IF filename \notin DOMAIN of THEN [kind |-> "store", filename |-> filename]
  ELSE IF md5 = of[filename].md5 THEN [kind |-> "duplicate", filename |-> filename]
  ELSE IF ~(num_char <= MaxNumChar) THEN [kind |-> "assert", filename |-> filename]
  ELSE resolve_filename(of, orig_filename,
                        orig_filename \o <<"_">> \o Head0(md5, num_char), md5, num_char + 1)

\* os.path.join(a, b) for a relative b
os_path_join(a, b) ==
  IF a = <<>> \/ a[Len(a)] = "/" THEN a \o b ELSE a \o <<"/">> \o b

\* the path the file is written to
output_fullpath(c, input, basename) ==
  IF c.output_file_prefix # <<>>
  THEN IF c.output_file_prefix = <<"m", "d", "5">>
       THEN os_path_join(c.output_dir, md5_hexdigest(input.data) \o <<"_">> \o basename)
       ELSE os_path_join(c.output_dir, c.output_file_prefix \o <<"_">> \o basename)
  ELSE os_path_join(c.output_dir, basename)

\* self.outputfiles[filename] = rec; s1 is the reporter after the Renamed line
record_output_file(s1, filename, rec) ==
  IF s1.exc # NoExc THEN s1 ELSE [s1 EXCEPT !.of = (filename :> rec) @@ s1.of]

\* self.outputfiles[filename]['path'] = fullpath; s4 is the reporter after the
\* Output file line
set_output_path(s4, filename, rec, fullpath) ==
  IF s4.exc # NoExc THEN s4
  ELSE [s4 EXCEPT !.of = (filename :> (("path" :> fullpath) @@ rec)) @@ s4.of]

\* the write without its try block: the exception of open() or write() goes on
\* to the caller
write_output_file_raise(s3, c, input, filename, rec, write_ok) ==
  IF s3.exc # NoExc \/ c.disable_output_files THEN s3
  ELSE IF c.output_file_prefix = <<"m", "d", "5">> /\ ~input.present
  THEN [s3 EXCEPT !.exc = "AttributeError"]
  ELSE IF write_ok
  THEN set_output_path(Log(s3, INFO,
                           <<"Output file: ">>
                             \o output_fullpath(c, input, os_path_basename(filename)), NoExc),
                       filename, rec, output_fullpath(c, input, os_path_basename(filename)))
  ELSE [s3 EXCEPT !.exc = "IOError"]

\* what the call did about the file on disk: open() and write() succeeded
\* ("ok") or raised ("failed"), or they were not reached ("none": the loop ended
\* on a duplicate or on the assert, writing is disabled, or the md5 of an input
\* file that is not set was asked for)
write_outcome(c, input, kind, write_ok) ==
  IF kind # "store" \/ c.disable_output_files
     \/ (c.output_file_prefix = <<"m", "d", "5">> /\ ~input.present)
  THEN "none"
  ELSE IF write_ok THEN "ok" ELSE "failed"

\* the write of the file; s3 is the reporter after the outputfile entry
write_output_file(s3, c, input, filename, rec, write_ok) ==
  IF s3.exc # NoExc \/ c.disable_output_files THEN s3
  ELSE IF c.output_file_prefix = <<"m", "d", "5">> /\ ~input.present
  THEN [s3 EXCEPT !.exc = "AttributeError"]
  ELSE LET fullpath == output_fullpath(c, input, os_path_basename(filename))
       IN IF write_ok
          THEN set_output_path(Log(s3, INFO, <<"Output file: ">> \o fullpath, NoExc),
                               filename, rec, fullpath)
          ELSE Log(s3, ERROR,
                   <<"Failed to write output file: ">> \o fullpath \o <<", ", "IOError">>,
                   NoExc)

\* the record of a new output file, its outputfile metadata entry, and the write
store_output_file(s, c, input, data, orig_filename, filename, description, write_ok) ==
  LET md5 == md5_hexdigest(data)
      rec == [data |-> data, description |-> description, md5 |-> md5]
  IN write_output_file(
       add_metadata(
         record_output_file(
           IF orig_filename # filename
           THEN Log(s, INFO, <<"Renamed ">> \o orig_filename \o <<" to ">> \o filename, NoExc)
           ELSE s,
           filename, rec),
         "outputfile", "tuple",
         <<os_path_basename(filename), description, md5>>
           \o (IF c.base64_output_files THEN <<b64encode(data)>> ELSE <<>>)),
       c, input, filename, rec, write_ok)

\* output_file ending with "return filename"
output_file_return_name(filename) == [isnone |-> FALSE, name |-> filename]

\* what output_file returns: it has no return statement with a value
output_file_return(filename) == [isnone |-> TRUE, name |-> <<>>]

\* output_file after its loop, which ended as r says
output_file_resolved(s, c, input, data, filename, description, write_ok, r) ==
  [s |-> IF r.kind = "duplicate"
         THEN Log(s, INFO, <<"Ignoring duplicate output file: ">> \o r.filename, NoExc)
         ELSE IF r.kind = "assert" THEN [s EXCEPT !.exc = "AssertionError"]
         ELSE store_output_file(s, c, input, data, filename, r.filename, description,
                                write_ok),
   kind |-> r.kind, stored |-> r.filename, ret |-> output_file_return(r.filename),
   write |-> write_outcome(c, input, r.kind, write_ok)]

\* Reporter.output_file(data, filename, description) under the options c and the
\* input file input; write_ok: the write to disk succeeds.  The result is the new
\* s with ret, the value returned, and stored, the name the loop ended on.
output_file(s, c, input, data, filename, description, write_ok) ==
  output_file_resolved(s, c, input, data, filename, description, write_ok,
                       resolve_filename(s.of, filename, filename, md5_hexdigest(data),
                                        FirstNumChar))

\* ------------------------------------------------------- the report
INFO_FIELD_ORDER == <<"inputfilename", "md5", "sha1", "sha256", "compiletime">>

STANDARD_FIELD_ORDER ==
  <<
    "c2_url", "c2_socketaddress", "c2_address", "proxy", "proxy_credential",
    "proxy_username", "proxy_password", "proxy_socketaddress", "proxy_address",
    "proxyport", "url", "urlpath", "socketaddress", "address", "port", "listenport",
    "credential", "username", "password", "missionid", "useragent", "interval",
    "version", "mutex", "service", "servicename", "servicedisplayname",
    "servicedescription", "serviceimage", "servicedll", "injectionprocess", "filepath",
    "directory", "filename", "registrykeyvalue", "registrykey", "registryvalue", "key"
  >>

\* x in seq
InList(seq, x) == \E i \in 1..Len(seq) : seq[i] = x

\* sep.join(values)
RECURSIVE Join(_, _)
Join(values, sep) ==
  IF values = <<>> THEN <<>>
  ELSE IF Len(values) = 1 THEN values[1]
  ELSE values[1] \o sep \o Join(Tail(values), sep)

\* Reporter.format_list(values, key)
format_list(values, key) ==
  IF key = "credential" /\ Len(values) = 2 THEN values[1] \o <<":">> \o values[2]
  ELSE IF key = "outputfile" /\ Len(values) >= 3 THEN values[1] \o <<" ">> \o values[2]
  ELSE IF key \in {"port", "listenport"} /\ Len(values) = 2
  THEN values[1] \o <<"/">> \o values[2]
  ELSE IF key = "registrykeyvalue" /\ Len(values) = 2
  THEN values[1] \o <<"=">> \o values[2]
  ELSE IF key \in {"socketaddress", "c2_socketaddress", "proxy_socketaddress"}
          /\ Len(values) = 3
  THEN values[1] \o <<":">> \o values[2] \o <<"/">> \o values[3]
  ELSE IF key = "service" /\ Len(values) = 5 THEN Join(values, <<",", " ">>)
  ELSE Join(values, <<" ">>)

\* One line of the text.  u"{:20} {}\n".format(printkey, value) is the record
\* [field, key, value]: key is the printkey that is padded to 20 columns (<<>>
\* for the empty printkey), value the text after it, and field names the entry
\* of the store (or "errors") the line renders.  A line without a printkey
\* column (a section header, a debug or error line) has key <<"">>.
Line(field, key, value) == [field |-> field, key |-> key, value |-> value]

\* the key of a line that has no printkey column
NoPrintKey == <<"">>

\* the lines of the items of a list from item i on; the printkey is on the first
RECURSIVE printable_items(_, _, _, _, _, _)
printable_items(field, key, printkey, value, istuples, i) ==
  IF i > Len(value) THEN <<>>
  ELSE <<Line(field, IF i = 1 THEN printkey ELSE <<>>,
              IF istuples THEN format_list(value[i], key) ELSE value[i])>>
         \o printable_items(field, key, printkey, value, istuples, i + 1)

\* Reporter.get_printable_key_value(key, value); typ is the python type of value:
\* "str", "listofstrings" or "listofstringtuples"
get_printable_key_value(field, key, printkey, value, typ) ==
  IF typ = "str" THEN <<Line(field, printkey, convert_to_unicode(value))>>
  ELSE printable_items(field, key, printkey, value, typ = "listofstringtuples", 1)

\* the type of self.metadata[key]: a file-information field is a string the
\* embedding tool has set, a field of the schema is what add_metadata made of it
value_type(key) ==
  IF InList(INFO_FIELD_ORDER, key) THEN "str"
  ELSE IF key \in ListOfStringTuplesFields THEN "listofstringtuples"
  ELSE "listofstrings"

\* for key in keys: if key in self.metadata: get_printable_key_value, from key i on
RECURSIVE render_fields(_, _, _)
render_fields(md, keys, i) ==
  IF i > Len(keys) THEN <<>>
  ELSE (IF keys[i] \in DOMAIN md
        THEN get_printable_key_value(keys[i], keys[i], <<keys[i]>>, md[keys[i]],
                                     value_type(keys[i]))
        ELSE <<>>)
       \o render_fields(md, keys, i + 1)

\* the File Information section
render_info(md) ==
  IF "inputfilename" \in DOMAIN md
  THEN <<Line("", NoPrintKey, <<"\n----File Information----\n">>)>>
         \o render_fields(md, INFO_FIELD_ORDER, 1)
  ELSE <<>>

\* the test of the loop over the fields left: a field of the schema that is not
\* in the standard order, nor other, debug or outputfile
IsLeftOver(key) ==
  /\ ~InList(STANDARD_FIELD_ORDER, key)
  /\ key \notin {"other", "debug", "outputfile"}
  /\ key \in DOMAIN fields

\* for key in self.metadata: the keys in the order of the dict, which is the order
\* of their insertion
render_leftover(md, order) == render_fields(md, SelectSeq(order, IsLeftOver), 1)

\* the code point of a lower-case letter or a digit
ord(c) ==
  IF c \in Digits
  THEN 47 + (CHOOSE i \in 1..10 : <<"0", "1", "2", "3", "4", "5", "6", "7", "8", "9">>[i] = c)
  ELSE 96 + (CHOOSE i \in 1..26 :
               <<"a", "b", "c", "d", "e", "f", "g", "h", "i", "j", "k", "l", "m",
                 "n", "o", "p", "q", "r", "s", "t", "u", "v", "w", "x", "y", "z">>[i] = c)

\* a < b for two strings
RECURSIVE str_less(_, _)
str_less(a, b) ==
  IF b = <<>> THEN FALSE
  ELSE IF a = <<>> THEN TRUE
  ELSE IF a[1] # b[1] THEN ord(a[1]) < ord(b[1])
  ELSE str_less(Tail(a), Tail(b))

\* sorted(keys)
RECURSIVE sorted(_)
sorted(keys) ==
  IF keys = {} THEN <<>>
  ELSE LET least == CHOOSE k \in keys : \A j \in keys \ {k} : str_less(k, j)
       IN <<least>> \o sorted(keys \ {least})

\* the lines of the sub-keys of other, from sub-key i of subkeys on
RECURSIVE render_subkeys(_, _, _)
render_subkeys(obj, subkeys, i) ==
  IF i > Len(subkeys) THEN <<>>
  ELSE get_printable_key_value("other", subkeys[i], subkeys[i],
                               IF obj[subkeys[i]].islist THEN obj[subkeys[i]].vals
                               ELSE obj[subkeys[i]].vals[1],
                               IF obj[subkeys[i]].islist THEN "listofstrings" ELSE "str")
       \o render_subkeys(obj, subkeys, i + 1)

\* the Other Metadata section
render_other(md) ==
  IF "other" \in DOMAIN md
  THEN <<Line("", NoPrintKey, <<"\n----Other Metadata----\n">>)>>
         \o render_subkeys(md["other"], sorted(DOMAIN md["other"]), 1)
  ELSE <<>>

\* u"{}\n".format(item) for each item
item_lines(field, items) == [i \in 1..Len(items) |-> Line(field, NoPrintKey, items[i])]

\* the Debug section
render_debug(md) ==
  IF "debug" \in DOMAIN md
  THEN <<Line("", NoPrintKey, <<"\n----Debug----\n">>)>> \o item_lines("debug", md["debug"])
  ELSE <<>>

\* the lines of the output files from entry i on: the name and the description,
\* then the md5
RECURSIVE render_outputfiles(_, _)
render_outputfiles(entries, i) ==
  IF i > Len(entries) THEN <<>>
  ELSE get_printable_key_value("outputfile", entries[i][1], entries[i][1],
                               <<entries[i][2], entries[i][3]>>, "listofstrings")
       \o render_outputfiles(entries, i + 1)

\* the Output Files section
render_outputfile(md) ==
  IF "outputfile" \in DOMAIN md
  THEN <<Line("", NoPrintKey, <<"\n----Output Files----\n">>)>>
         \o render_outputfiles(md["outputfile"], 1)
  ELSE <<>>

\* the Errors section
render_errors(errs) ==
  IF errs # <<>>
  THEN <<Line("", NoPrintKey, <<"\n----Errors----\n">>)>> \o item_lines("errors", errs)
  ELSE <<>>

\* get_output_text with the standard fields before the file information
get_output_text_standard_first(md, order, errs) ==
  <<Line("", NoPrintKey, <<"\n----Standard Metadata----\n">>)>>
    \o render_fields(md, STANDARD_FIELD_ORDER, 1)
    \o render_info(md)
    \o render_leftover(md, order)
    \o render_other(md)
    \o render_debug(md)
    \o render_outputfile(md)
    \o render_errors(errs)

\* Reporter.get_output_text(): the lines of the text, md being self.metadata,
\* order the order of its keys and errs self.errors
get_output_text(md, order, errs) ==
  render_info(md)
    \o <<Line("", NoPrintKey, <<"\n----Standard Metadata----\n">>)>>
    \o render_fields(md, STANDARD_FIELD_ORDER, 1)
    \o render_leftover(md, order)
    \o render_other(md)
    \o render_debug(md)
    \o render_outputfile(md)
    \o render_errors(errs)

\* ------------------------------------------------------- inputs
\* the constructor's options, drawn at construction
Config(dof, dtc, b64, pfx) ==
  [disable_output_files |-> dof, disable_temp_cleanup |-> dtc, base64_output_files |-> b64,
   output_dir |-> <<"o", "u", "t">>, output_file_prefix |-> pfx]

\* the defaults, each option set alone, and all of them set
Configs ==
  { Config(FALSE, FALSE, FALSE, <<>>), Config(TRUE, FALSE, FALSE, <<>>),
    Config(FALSE, TRUE, FALSE, <<>>), Config(FALSE, FALSE, TRUE, <<>>),
    Config(FALSE, FALSE, FALSE, <<"m", "d", "5">>), Config(FALSE, FALSE, FALSE, <<"p">>),
    Config(TRUE, TRUE, TRUE, <<"m", "d", "5">>) }

\* no input file (self.input_file is None), and the input file of a run
NoInputFile == [present |-> FALSE, file_path |-> "", data |-> "sample"]
InputFile(file_path) == [present |-> TRUE, file_path |-> file_path, data |-> "sample"]

\* run_parser's file_path: none given (data is used), a readable file, a missing file
FilePaths == {"", "/in/sample", "/in/missing"}

\* the registry: the parsers in the order mwcp.iter_parsers yields them
Registry == [i \in 1..MaxPlugins |-> <<"acme", ":", "p" \o ToString(i)>>]

\* the lists iter_parsers(name) can yield: the sub-lists of the registry
RECURSIVE SubLists(_)
SubLists(n) ==
  IF n = 0 THEN {<<>>}
  ELSE SubLists(n - 1) \cup {Append(l, Registry[n]) : l \in SubLists(n - 1)}

\* the exceptions a parser's parse() raises
PluginExceptions == {"Exception", "SystemExit", "KeyboardInterrupt"}

\* add_metadata(key, value) calls with a string value: plain, empty, a debug
\* line, urls that parse and that do not, addresses, paths, an unknown key
AllStrReports ==
  { <<"mutex", <<"m">>>>, <<"mutex", <<"n">>>>, <<"mutex", <<>>>>, <<"debug", <<"x">>>>,
    <<"url", <<"u">>>>, <<"c2_url", <<"h", ":", "/", "/", "a", ":", "8", "/", "p">>>>,
    <<"url", <<"h", ":", "/", "/", "a">>>>, <<"c2_address", <<"a">>>>,
    <<"address", <<"a">>>>, <<"servicedll", <<"c", ":", "\\", "d", "\\", "e">>>>,
    <<"filename", <<"e">>>>, <<"bogus", <<"v">>>>, <<"bogus", <<>>>> }

\* add_metadata(key, value) calls with a tuple value
AllTupleReports ==
  { <<"credential", <<<<"u">>, <<"p">>>>>>, <<"credential", <<<<>>, <<>>>>>>,
    <<"socketaddress", <<<<"a">>, <<"8">>, <<"t", "c", "p">>>>>>,
    <<"socketaddress", <<<<"a">>, <<"8", "a">>, <<"t", "c", "p">>>>>>,
    <<"port", <<<<"8", "a">>, <<"t", "c", "p">>>>>>,
    <<"bogus", <<<<>>, <<>>>>>>, <<"bogus", <<<<"v">>>>>> }

\* add_metadata(key, value) calls with a mapping value
StrItem(k, v) == [k |-> k, isstr |-> TRUE, v |-> v, subexc |-> NoExc, subtype |-> ""]

\* the item k: 5, whose value cannot be indexed
IntItem(k) == [k |-> k, isstr |-> FALSE, v |-> <<>>, subexc |-> "TypeError", subtype |-> ""]

AllDictReports ==
  { <<"other", <<StrItem(<<"k">>, <<"v">>)>>>>,
    <<"other", <<StrItem(<<>>, <<"v">>)>>>>,
    <<"other", <<StrItem(<<"k">>, <<"v">>), IntItem(<<"j">>)>>>>,
    <<"other", <<IntItem(<<"j">>), StrItem(<<"k">>, <<"v">>)>>>>,
    <<"bogus", <<StrItem(<<>>, <<"v">>)>>>>,
    <<"bogus", <<StrItem(<<"k">>, <<"v">>)>>>> }

\* add_metadata(key, None) calls
NoneReports == {"mutex", "bogus"}

\* output_file(data, filename, description) calls: d75 and d1970 share the first
\* five characters of their md5, and one name is a name the rename loop tries
AllOutputCalls ==
  { <<"d1", <<"f">>, <<>>>>, <<"d1", <<"f">>, <<"x">>>>, <<"d75", <<"f">>, <<>>>>,
    <<"d1970", <<"f">>, <<>>>>, <<"d1", <<"f", "_", "c", "d", "8", "b", "5">>, <<>>>> }

\* the calls of the specification of whole runs
StrReports ==
  { <<"mutex", <<"m">>>>, <<"c2_url", <<"h", ":", "/", "/", "a", ":", "8", "/", "p">>>>,
    <<"bogus", <<"v">>>> }

OutputCalls == { <<"d1", <<"f">>, <<>>>> }

\* the options of the specification of whole runs
RunConfigs == { Config(FALSE, FALSE, FALSE, <<>>), Config(TRUE, TRUE, TRUE, <<"m", "d", "5">>) }

\* ------------------------------------------------------- run_parser
\* the reporter as the operations above see it
Store == [md |-> metadata, order |-> key_order, errs |-> errors, of |-> outputfiles, exc |-> NoExc,
          n |-> Cardinality(root_handlers), fired |-> <<>>]

Commit(s) ==
  /\ metadata' = s.md
  /\ key_order' = s.order
  /\ errors' = s.errs
  /\ outputfiles' = s.of

\* tempfile.mkdtemp: a directory that did not exist
mkdtemp == CHOOSE d \in 1..(Cardinality(fs_tempdirs) + 1) : d \notin fs_tempdirs

\* Reporter.__reset: the handlers on the root logger after it.  The handler of
\* this run gets the number of the run as its identity.
reset_handlers == root_handlers \cup {nruns + 1}

\* __reset without "self.errors = []"
reset_store_keep_errors ==
  [md |-> <<>>, order |-> <<>>, errs |-> errors, of |-> <<>>, exc |-> NoExc,
   n |-> Cardinality(reset_handlers), fired |-> <<>>]

\* Reporter.__reset: the store after it
reset_store ==
  [md |-> <<>>, order |-> <<>>, errs |-> <<>>, of |-> <<>>, exc |-> NoExc,
   n |-> Cardinality(reset_handlers), fired |-> <<>>]


\* the record of the last call
NoRet == [isnone |-> TRUE, name |-> <<>>]

Result(op, exc) ==
  [op |-> op, exc |-> exc, key |-> "", empty |-> FALSE, kind |-> "", filename |-> <<>>,
   data |-> "", stored |-> <<>>, ret |-> NoRet, value |-> <<>>, text |-> <<>>,
   write |-> "none", fired |-> <<>>]

\* ------------------------------------------------------------------ Init
Constructed(configs) ==
  /\ metadata = <<>>
  /\ key_order = <<>>
  /\ errors = <<>>
  /\ outputfiles = <<>>
  /\ input_file = NoInputFile
  /\ log_handler = 0
  /\ managed_tempdir = 0
  /\ cfg \in configs
  /\ root_handlers = {}
  /\ stdout = "orig"
  /\ fs_tempdirs = {}
  /\ pc = "idle"
  /\ plugins = <<>>
  /\ idx = 0
  /\ invoked = <<>>
  /\ raised = {}
  /\ result = Result("__init__", NoExc)
  /\ recorded = {}
  /\ ncalls = 0
  /\ nruns = 0

\* ------------------------------------------------------------------ actions
\* run_parser(name, file_path, data) up to the first parser's parse(), or to its
\* end when the input file cannot be read or no parser matches; P is what
\* iter_parsers(name) yields
RunParser(P, file_path) ==
  /\ pc = "idle"
  /\ nruns < MaxRuns
  /\ nruns' = nruns + 1
  /\ managed_tempdir' = 0
  /\ raised' = {}
  /\ recorded' = {}
  /\ UNCHANGED <<cfg, fs_tempdirs, ncalls>>
  /\ IF file_path = "/in/missing"
     THEN \* open(file_path) raises before the try block is entered
          /\ Commit(reset_store)
          /\ input_file' = NoInputFile
          /\ log_handler' = nruns + 1
          /\ root_handlers' = reset_handlers
          /\ result' = Result("run_parser", "IOError")
          /\ plugins' = <<>> /\ idx' = 0 /\ invoked' = <<>>
          /\ UNCHANGED <<stdout, pc>>
     ELSE IF P = <<>>
     THEN \* no parser: the error is logged, stdout restored, __cleanup runs
          /\ Commit(Log(reset_store, ERROR,
                        <<"Could not find parsers with name: ", "name">>, NoExc))
          /\ input_file' = InputFile(file_path)
          /\ log_handler' = 0
          /\ root_handlers' = reset_handlers \ {nruns + 1}
          /\ result' = Result("run_parser", NoExc)
          /\ plugins' = <<>> /\ idx' = 0 /\ invoked' = <<>>
          /\ UNCHANGED <<stdout, pc>>
     ELSE /\ Commit(reset_store)
          /\ input_file' = InputFile(file_path)
          /\ log_handler' = nruns + 1
          /\ root_handlers' = reset_handlers
          /\ stdout' = "_LogWriter"
          /\ pc' = "parse"
          /\ result' = Result("__reset", NoExc)
          /\ plugins' = P /\ idx' = 1 /\ invoked' = <<P[1]>>

\* the end of run_parser: the with block restores stdout, finally runs __cleanup
FinishRun(s, exc) ==
  /\ Commit(s)
  /\ stdout' = "orig"
  /\ root_handlers' = IF log_handler # 0 THEN root_handlers \ {log_handler}
                      ELSE root_handlers
  /\ log_handler' = 0
  /\ fs_tempdirs' = IF ~cfg.disable_temp_cleanup /\ managed_tempdir # 0
                    THEN fs_tempdirs \ {managed_tempdir} ELSE fs_tempdirs
  /\ managed_tempdir' = 0
  /\ pc' = "idle"
  /\ result' = Result("run_parser", exc)
  /\ UNCHANGED <<plugins, idx, invoked>>

\* the loop goes on to the next parser, or run_parser ends
NextParser(s) ==
  IF idx < Len(plugins)
  THEN /\ Commit(s)
       /\ idx' = idx + 1
       /\ invoked' = Append(invoked, plugins[idx + 1])
       /\ result' = Result("parse", NoExc)
       /\ UNCHANGED <<log_handler, managed_tempdir, root_handlers, stdout, fs_tempdirs, pc,
                      plugins>>
  ELSE FinishRun(s, NoExc)

\* parser.parse(self.input_file, self) returns
PluginReturn ==
  /\ pc = "parse"
  /\ NextParser(Store)
  /\ UNCHANGED <<input_file, cfg, raised, recorded, ncalls, nruns>>

\* parser.parse(self.input_file, self) raises e
PluginRaise(e) ==
  /\ pc = "parse"
  /\ IF e \in {"Exception", "SystemExit"}
     THEN /\ NextParser(Log(Store, ERROR,
                            <<"Error running parser ">> \o plugins[idx] \o <<" on ">>
                              \o (IF input_file.file_path # "" THEN <<input_file.file_path>>
                                  ELSE md5_hexdigest(input_file.data)), e))
          /\ raised' = raised \cup {plugins[idx]}
     ELSE /\ FinishRun(Store, e)
          /\ UNCHANGED raised
  /\ UNCHANGED <<input_file, cfg, recorded, ncalls, nruns>>

\* a call returns, or raises s.exc, leaving the reporter as s; res describes it
Return(s, res) ==
  /\ Commit(s)
  /\ result' = [res EXCEPT !.exc = s.exc, !.fired = s.fired]

\* output_file returns or raises: r is what it did
OutputFileReturn(r, data, filename) ==
  /\ Return(r.s, [Result("output_file", NoExc) EXCEPT
                    !.kind = r.kind, !.filename = filename, !.data = data,
                    !.stored = r.stored, !.ret = r.ret, !.write = r.write])
  /\ recorded' = IF r.kind = "assert" THEN recorded ELSE recorded \cup {<<filename, data>>}

\* a parser during parse(), or the embedding tool between runs, calls
\* add_metadata(key, value)
AddMetadata(key, typ, value, max) ==
  /\ ncalls < max
  /\ ncalls' = ncalls + 1
  /\ Return(add_metadata(Store, key, typ, value),
            [Result("add_metadata", NoExc) EXCEPT
               !.key = key, !.empty = IsEmptyValue(typ, value), !.value = value])
  /\ UNCHANGED <<input_file, log_handler, managed_tempdir, cfg, root_handlers, stdout,
                 fs_tempdirs, pc, plugins, idx, invoked, raised, recorded, nruns>>

\* a parser, or the embedding tool, calls output_file(data, filename, description)
OutputFile(data, filename, description, write_ok, max) ==
  /\ ncalls < max
  /\ ncalls' = ncalls + 1
  /\ OutputFileReturn(output_file(Store, cfg, input_file, data, filename, description,
                                  write_ok),
                      data, filename)
  /\ UNCHANGED <<input_file, log_handler, managed_tempdir, cfg, root_handlers, stdout,
                 fs_tempdirs, pc, plugins, idx, invoked, raised, nruns>>

\* the managed_tempdir property is read while no directory is set: one is made
ManagedTempdir(max) ==
  /\ ncalls < max
  /\ ncalls' = ncalls + 1
  /\ managed_tempdir = 0
  /\ managed_tempdir' = mkdtemp
  /\ fs_tempdirs' = fs_tempdirs \cup {mkdtemp}
  /\ Commit(IF cfg.disable_temp_cleanup
            THEN Log(Store, INFO, <<"Using managed temp dir: ", "mwcp-managed_tempdir-",
                                    ToString(mkdtemp)>>, NoExc)
            ELSE Store)
  /\ result' = Result("managed_tempdir", NoExc)
  /\ UNCHANGED <<input_file, log_handler, cfg, root_handlers, stdout, pc, plugins, idx,
                 invoked, raised, recorded, nruns>>

\* a parser writes to sys.stdout, which is the _LogWriter during parse()
StdoutWrite(max) ==
  /\ ncalls < max
  /\ ncalls' = ncalls + 1
  /\ stdout = "_LogWriter"
  /\ Commit(Log(Store, INFO, <<"o", "u", "t">>, NoExc))
  /\ result' = Result("write", NoExc)
  /\ UNCHANGED <<input_file, log_handler, managed_tempdir, cfg, root_handlers, stdout,
                 fs_tempdirs, pc, plugins, idx, invoked, raised, recorded, nruns>>

\* the embedding tool sets a file-information entry of the public attribute
\* metadata, which get_output_text reads: self.metadata[key] = value
SetFileInfo(key, value, max) ==
  /\ ncalls < max
  /\ ncalls' = ncalls + 1
  /\ metadata' = (key :> value) @@ metadata
  /\ key_order' = IF key \in DOMAIN metadata THEN key_order ELSE Append(key_order, key)
  /\ result' = [Result("set_metadata", NoExc) EXCEPT !.key = key, !.value = value]
  /\ UNCHANGED <<errors, outputfiles, input_file, log_handler, managed_tempdir, cfg,
                 root_handlers, stdout, fs_tempdirs, pc, plugins, idx, invoked, raised,
                 recorded, nruns>>

\* the embedding tool calls get_output_text() (print_report prints its text)
GetOutputText ==
  /\ result.op # "get_output_text"
  /\ result' = [Result("get_output_text", NoExc) EXCEPT
                  !.text = get_output_text(metadata, key_order, errors)]
  /\ UNCHANGED <<metadata, key_order, errors, outputfiles, input_file, log_handler,
                 managed_tempdir, cfg, root_handlers, stdout, fs_tempdirs, pc, plugins,
                 idx, invoked, raised, recorded, ncalls, nruns>>

\* ---------------------------------------------------------- specifications
\* Whole runs: any sequence of run_parser calls on one reporter, the parsers (and
\* the embedding tool between the runs) making calls of each kind.
Init == Constructed(RunConfigs)

Next ==
  \/ \E P \in SubLists(MaxPlugins), file_path \in FilePaths : RunParser(P, file_path)
  \/ PluginReturn
  \/ \E e \in PluginExceptions : PluginRaise(e)
  \/ \E r \in StrReports : pc = "parse" /\ AddMetadata(r[1], "str", r[2], MaxCalls)
  \/ \E c \in OutputCalls, write_ok \in BOOLEAN :
       pc = "parse" /\ OutputFile(c[1], c[2], c[3], write_ok, MaxCalls)
  \/ pc = "parse" /\ ManagedTempdir(MaxCalls)
  \/ StdoutWrite(MaxCalls)

Spec == Init /\ [][Next]_vars

\* a run with one parser begins; the calls that follow are made by its parse()
BeginRun == nruns = 0 /\ RunParser(<<Registry[1]>>, "")

\* Reports: sequences of add_metadata calls, before any run or inside one.
InitReport == Constructed({Config(FALSE, FALSE, FALSE, <<>>)})

NextReport ==
  \/ BeginRun
  \/ \E r \in AllStrReports : AddMetadata(r[1], "str", r[2], MaxReports)
  \/ \E r \in AllTupleReports : AddMetadata(r[1], "tuple", r[2], MaxReports)
  \/ \E r \in AllDictReports : AddMetadata(r[1], "dict", r[2], MaxReports)
  \/ \E k \in NoneReports : AddMetadata(k, "none", <<>>, MaxReports)

SpecReport == InitReport /\ [][NextReport]_vars

\* Output files: sequences of output_file calls, before any run or inside one.
InitOutput == Constructed(Configs)

NextOutput ==
  \/ BeginRun
  \/ \E c \in AllOutputCalls, write_ok \in BOOLEAN :
       OutputFile(c[1], c[2], c[3], write_ok, MaxOutputs)

SpecOutput == InitOutput /\ [][NextOutput]_vars

\* ------------------------------------------------------- derivations
\* c2_url values of the form scheme://host:port/path
Hosts == { <<"a">>, <<"b", ".", "c">> }
Ports == { <<"8">>, <<"8", "0">> }
UrlPaths == { <<"/", "p">>, <<"/", "x", "/", "y">> }

C2Url(host, port, path) == <<"h", ":", "/", "/">> \o host \o <<":">> \o port \o path

C2Urls == { C2Url(h, p, q) : h \in Hosts, p \in Ports, q \in UrlPaths }

\* filepath values: Windows paths with and without a drive, a directory, a name
WinPaths ==
  { <<"c", ":", "\\", "d", "\\", "e">>,
    <<"c", ":", "\\", "e">>,
    <<"\\", "e">>,
    <<"d", "\\", "e">>,
    <<"d", "\\">>,
    <<"e">>,
    <<"d", "\\", "\\", "e">>,
    <<"d", "/", "e">> }

\* proxy values: (user, password, host) alone, padded by the caller, with a
\* port and a protocol, and with a value more than the five
Proxies ==
  { <<<<"u">>, <<"p">>, <<"h">>>>,
    <<<<"u">>, <<"p">>, <<"h">>, <<>>, <<>>>>,
    <<<<"u">>, <<"p">>, <<"h">>, <<"8">>, <<"t", "c", "p">>>>,
    <<<<"u">>, <<"p">>, <<"h">>, <<>>, <<>>, <<"x">>>> }

\* rsa_private_key values: two components, and the same padded to eight
RsaPrivateKeys ==
  { <<<<"1">>, <<"2">>>>,
    <<<<"1">>, <<"2">>, <<>>, <<>>, <<>>, <<>>, <<>>, <<>>>> }

\* a service tuple (name, display name, description, image path, dll path)
Services ==
  { << <<"n">>, <<"d">>, <<"x">>, <<"c", ":", "\\", "s", ".", "e", "x", "e", " ", "-", "k">>,
       <<"c", ":", "\\", "l">> >> }

\* an ftp tuple (user, password, url)
Ftps == { << <<"u">>, <<"p">>, <<"f", ":", "/", "/", "a", ":", "8", "/", "p">> >> }

\* Derivations: sequences of reports whose values the cascade rules expand,
\* before any run or inside one.
InitDerive == Constructed({Config(FALSE, FALSE, FALSE, <<>>)})

NextDerive ==
  \/ BeginRun
  \/ \E v \in C2Urls : AddMetadata("c2_url", "str", v, MaxDerive)
  \/ \E v \in WinPaths : AddMetadata("filepath", "str", v, MaxDerive)
  \/ \E v \in Proxies : AddMetadata("proxy", "tuple", v, MaxDerive)
  \/ \E v \in RsaPrivateKeys : AddMetadata("rsa_private_key", "tuple", v, MaxDerive)
  \/ \E v \in Services : AddMetadata("service", "tuple", v, MaxDerive)
  \/ \E v \in Ftps : AddMetadata("ftp", "tuple", v, MaxDerive)

SpecDerive == InitDerive /\ [][NextDerive]_vars

\* ------------------------------------------------------- mappings
\* the item k: {k: 5}, whose value holds a number under the sub-key itself
MapItem(k) == [k |-> k, isstr |-> FALSE, v |-> <<>>, subexc |-> NoExc,
               subtype |-> "<class 'int'>"]

\* the item k: {}, a mapping without the sub-key
EmptyMapItem(k) == [k |-> k, isstr |-> FALSE, v |-> <<>>, subexc |-> "KeyError",
                    subtype |-> ""]

\* add_metadata("other", value) calls: one entry, two entries, and entries whose
\* value is no string, first and last in the iteration order
DictReports ==
  { <<StrItem(<<"k">>, <<"v">>)>>, <<StrItem(<<"k">>, <<"w">>)>>,
    <<StrItem(<<"k">>, <<"x">>)>>, <<StrItem(<<"j">>, <<"v">>)>>,
    <<StrItem(<<"k">>, <<"v">>), StrItem(<<"j">>, <<"w">>)>>,
    <<StrItem(<<"k">>, <<"w">>), IntItem(<<"j">>)>>,
    <<IntItem(<<"j">>), StrItem(<<"k">>, <<"w">>)>>,
    <<MapItem(<<"j">>), StrItem(<<"k">>, <<"x">>)>>,
    <<EmptyMapItem(<<"j">>), StrItem(<<"k">>, <<"x">>)>> }

\* Mappings: sequences of reports of the field other, before any run or inside one.
InitDict == Constructed({Config(FALSE, FALSE, FALSE, <<>>)})

NextDict ==
  \/ BeginRun
  \/ \E v \in DictReports : AddMetadata("other", "dict", v, MaxDicts)

SpecDict == InitDict /\ [][NextDict]_vars

\* ------------------------------------------------------- collisions
\* the name the rename loop tries for ("f", "d75") with a suffix of k characters
CollidingName(k) == <<"f", "_">> \o Head0(md5_hexdigest("d75"), k)

\* a caller writes a file under the name f, then files under the names the
\* rename loop would try for other contents of that name, shortest suffix first
PreCreate(max) ==
  \/ <<"f">> \notin DOMAIN outputfiles /\ OutputFile("d1", <<"f">>, <<>>, TRUE, max)
  \/ \E k \in FirstNumChar..MaxNumChar :
       /\ <<"f">> \in DOMAIN outputfiles
       /\ CollidingName(k) \notin DOMAIN outputfiles
       /\ k > FirstNumChar => CollidingName(k - 1) \in DOMAIN outputfiles
       /\ OutputFile("d1", CollidingName(k), <<>>, TRUE, max)

\* Collisions: output_file calls on a table that holds the names the rename
\* loop tries.
InitCollide == Constructed({Config(FALSE, FALSE, FALSE, <<>>), Config(TRUE, FALSE, FALSE, <<>>)})

NextCollide ==
  \/ PreCreate(MaxCollide)
  \/ <<"f">> \in DOMAIN outputfiles /\ OutputFile("d75", <<"f">>, <<>>, TRUE, MaxCollide)

SpecCollide == InitCollide /\ [][NextCollide]_vars

\* ------------------------------------------------------- reports rendered
\* the file-information entries the embedding tool sets
FileInfos == { <<"inputfilename", <<"i", "n">>>>, <<"md5", md5_hexdigest("sample")>> }

\* add_metadata calls for the report: standard fields, fields of the schema
\* outside the standard order, a url that does not parse (an error line in a
\* run), a mapping and a debug line
RenderStrReports ==
  { <<"mutex", <<"m">>>>, <<"url", <<"u">>>>, <<"registrypath", <<"x">>>>,
    <<"registrydata", <<"y">>>>, <<"debug", <<"d">>>> }

RenderDictReports == { <<"other", <<StrItem(<<"b">>, <<"1">>), StrItem(<<"a">>, <<"2">>)>>>> }

\* Rendering: the embedding tool and a parser fill the store in any order, and
\* the text is asked for at any time.
InitRender == Constructed({Config(TRUE, FALSE, FALSE, <<>>)})

NextRender ==
  \/ BeginRun
  \/ \E r \in FileInfos : SetFileInfo(r[1], r[2], MaxRender)
  \/ \E r \in RenderStrReports : AddMetadata(r[1], "str", r[2], MaxRender)
  \/ \E r \in RenderDictReports : AddMetadata(r[1], "dict", r[2], MaxRender)
  \/ OutputFile("d1", <<"f">>, <<"x">>, TRUE, MaxRender)
  \/ GetOutputText

SpecRender == InitRender /\ [][NextRender]_vars

\* ------------------------------------------------------- malformed tuples
\* add_metadata calls with a tuple of the wrong length, a port that is no
\* number of the range, a protocol that is none of the three, or components
\* left empty
MalformedTuples ==
  { <<"socketaddress", <<<<"a">>>>>>,
    <<"socketaddress", <<<<"a">>, <<"8", "a">>, <<"t", "c", "p">>>>>>,
    <<"socketaddress", <<<<"a">>, <<"9", "9", "9", "9", "9">>, <<"x">>>>>>,
    <<"socketaddress", <<<<>>, <<"8">>, <<"t", "c", "p">>>>>>,
    <<"c2_socketaddress", <<<<"a">>, <<"8">>>>>>,
    <<"proxy_socketaddress", <<<<>>, <<"8">>, <<"u", "d", "p">>>>>>,
    <<"port", <<<<"8">>>>>>,
    <<"port", <<<<"x">>, <<"t", "c", "p">>>>>>,
    <<"listenport", <<<<"7", "0", "0", "0", "0">>, <<"t", "c", "p">>, <<"z">>>>>>,
    <<"proxy", <<<<"u">>>>>>,
    <<"proxy", <<<<"u">>, <<"p">>, <<"h">>, <<>>, <<>>, <<"x">>>>>>,
    <<"proxy", <<<<>>, <<>>, <<"h">>, <<"8">>, <<"b">>>>>>,
    <<"ftp", <<<<"u">>>>>>,
    <<"ftp", <<<<"u">>, <<"p">>, <<"n">>, <<"z">>>>>>,
    <<"credential", <<<<"u">>, <<"p">>, <<"q">>>>>>,
    <<"registrypathdata", <<<<"r">>>>>>,
    <<"service", <<<<"n">>, <<>>, <<>>, <<>>, <<"c", ":", "\\", "l">>, <<"z">>>>>>,
    <<"rsa_public_key", <<<<"1">>>>>>,
    <<"rsa_private_key", <<<<"1">>, <<"2">>, <<"3">>, <<"4">>, <<"5">>, <<"6">>, <<"7">>,
                          <<"8">>, <<"9">>>>>> }

\* Malformed tuples: sequences of such reports, before any run or inside one.
InitMalformed == Constructed({Config(FALSE, FALSE, FALSE, <<>>)})

NextMalformed ==
  \/ BeginRun
  \/ \E r \in MalformedTuples : AddMetadata(r[1], "tuple", r[2], MaxMalformed)

SpecMalformed == InitMalformed /\ [][NextMalformed]_vars

\* ------------------------------------------------------- socket addresses
\* the three fields that hold a socket address
SocketFields == {"c2_socketaddress", "proxy_socketaddress", "socketaddress"}

\* ports (a numeral, and one int() rejects) and protocols (one of the three,
\* and another)
SocketPorts == { <<"8">>, <<"8", "a">> }
SocketProtocols == { <<"t", "c", "p">>, <<"u">> }

\* the tuples (h, p, proto)
SocketAddresses == { <<h, p, q>> : h \in Hosts, p \in SocketPorts, q \in SocketProtocols }

\* Socket addresses: sequences of reports of the three fields, before any run
\* or inside one.
InitSocket == Constructed({Config(FALSE, FALSE, FALSE, <<>>)})

NextSocket ==
  \/ BeginRun
  \/ \E k \in SocketFields, v \in SocketAddresses : AddMetadata(k, "tuple", v, MaxSockets)

SpecSocket == InitSocket /\ [][NextSocket]_vars

\* ------------------------------------------------------------ properties
\* a step that is a call of add_metadata, of output_file
IsReport == ncalls' = ncalls + 1 /\ result'.op = "add_metadata"
IsOutput == ncalls' = ncalls + 1 /\ result'.op = "output_file"

debug_of(md) == IF "debug" \in DOMAIN md THEN md["debug"] ELSE <<>>

\* md with the entries appended to its debug list
WithDebug(md, entries) ==
  IF entries = <<>> THEN md ELSE ("debug" :> (debug_of(md) \o entries)) @@ md

\* the line the log capture stores for the warning of an empty value
NoValuesMessage(key) ==
  format(WARNING, <<"no values provided for ", key, ", skipping">>, NoExc)

\* the warning of an empty value, once for each attached ReporterLogHandler
NoValuesCaptured(key) ==
  [i \in 1..Cardinality(root_handlers) |-> NoValuesMessage(key)]

\* C1 as stated: for every key that is not in the schema and every value, None
\* and empty values included, add_metadata raises and leaves metadata, errors
\* and outputfiles unchanged.
C1_UnknownKeyAlwaysFails ==
  [][(IsReport /\ result'.key \notin DOMAIN fields)
       => (result'.exc = "KeyError" /\ UNCHANGED <<metadata, errors, outputfiles>>)]_vars

\* C1 amended: for every key that is not in the schema, add_metadata with a value
\* that is not None and has a non-empty component raises KeyError and leaves
\* metadata, errors and outputfiles unchanged; with None or an empty or all-empty
\* value it raises nothing, leaves errors and outputfiles unchanged, and its
\* warning is appended to debug once for each attached log handler.
C1_UnknownKeyFailsUnlessEmpty ==
  [][(IsReport /\ result'.key \notin DOMAIN fields)
       => IF result'.empty
          THEN /\ result'.exc = NoExc
               /\ UNCHANGED <<errors, outputfiles>>
               /\ metadata' = WithDebug(metadata, NoValuesCaptured(result'.key))
          ELSE /\ result'.exc = "KeyError"
               /\ UNCHANGED <<metadata, errors, outputfiles>>]_vars

\* an unknown key with a value was refused during a run whose store is not empty
C1_Witness ==
  /\ result.op = "add_metadata" /\ result.key = "bogus" /\ ~result.empty
  /\ result.exc = "KeyError"
  /\ pc = "parse" /\ DOMAIN metadata # {}

\* C2 as stated: add_metadata with a key of the schema and None or an empty or
\* all-empty value raises nothing and leaves the whole store, debug included,
\* unchanged, also during a run.
C2_EmptyValueNoOp ==
  [][(IsReport /\ result'.key \in DOMAIN fields /\ result'.empty)
       => (result'.exc = NoExc /\ UNCHANGED <<metadata, errors, outputfiles>>)]_vars

\* C2 amended: add_metadata with a key of the schema and None or an empty or
\* all-empty value raises nothing and leaves errors, outputfiles and every field
\* of metadata other than debug unchanged; its warning is appended to debug once
\* for each attached log handler, so that debug is unchanged only outside a run.
C2_EmptyValueOnlyLogs ==
  [][(IsReport /\ result'.key \in DOMAIN fields /\ result'.empty)
       => /\ result'.exc = NoExc
          /\ UNCHANGED <<errors, outputfiles>>
          /\ metadata' = WithDebug(metadata, NoValuesCaptured(result'.key))]_vars

\* an empty value was reported for a known key during a run, the store holding
\* a field other than debug
C2_Witness ==
  /\ result.op = "add_metadata" /\ result.key \in DOMAIN fields /\ result.empty
  /\ pc = "parse"
  /\ debug_of(metadata) # <<>> /\ DOMAIN metadata \ {"debug"} # {}

\* C3: every key of metadata is a field name of the schema, the fields filled by
\* the derivation rules and by the log capture included.
C3_KeysInSchema == DOMAIN metadata \subseteq DOMAIN fields

\* a run has filled fields by a derivation rule, by output_file and by the log
\* capture
C3_Witness == {"socketaddress", "c2_address", "outputfile", "debug"} \subseteq DOMAIN metadata

\* a list holds no value twice
NoDuplicates(l) == \A i, j \in 1..Len(l) : l[i] = l[j] => i = j

\* C4: after any sequence of reports every listofstrings field other than debug
\* holds no value twice, and a report of a value already present leaves the
\* field unchanged; a report of a non-empty value to debug appends exactly one
\* entry to debug, also when an equal entry is present.
C4_ListsDedupDebugAppends ==
  /\ [](\A k \in DOMAIN metadata :
          k \in ListOfStringsFields \ {"debug"} => NoDuplicates(metadata[k]))
  /\ [][(IsReport /\ result'.key \in ListOfStringsFields /\ ~result'.empty)
          => IF result'.key = "debug"
             THEN metadata' = WithDebug(metadata, <<result'.value>>)
             ELSE (/\ result'.key \in DOMAIN metadata
                   /\ \E i \in 1..Len(metadata[result'.key]) :
                        metadata[result'.key][i] = result'.value)
                  => metadata'[result'.key] = metadata[result'.key]]_vars

\* debug holds the same reported line twice, and address was derived twice from
\* one c2_url and is held once
C4_Witness ==
  /\ debug_of(metadata) = << <<"x">>, <<"x">> >>
  /\ "c2_address" \in DOMAIN metadata /\ "socketaddress" \in DOMAIN metadata
  /\ metadata["address"] = << <<"a">> >>

\* the name the rename loop tries with the first k characters of the md5
Candidate(filename, md5, k) == filename \o <<"_">> \o Head0(md5, k)

outputfile_of(md) == IF "outputfile" \in DOMAIN md THEN md["outputfile"] ELSE <<>>

\* C5: an output_file call with a (filename, data) pair that an earlier call
\* since the last reset recorded leaves outputfiles and the outputfile list of
\* metadata unchanged, also when the data was stored under a renamed name.
C5_DuplicateOutputIgnored ==
  [][(IsOutput /\ <<result'.filename, result'.data>> \in recorded)
       => /\ result'.kind = "duplicate"
          /\ outputfiles' = outputfiles
          /\ outputfile_of(metadata') = outputfile_of(metadata)]_vars

\* the pair (f, d75), stored under the renamed f_cd8b5, was given again and
\* ignored
C5_Witness ==
  /\ result.op = "output_file" /\ result.kind = "duplicate"
  /\ result.filename = <<"f">> /\ result.data = "d75"
  /\ result.stored = Candidate(<<"f">>, md5_hexdigest("d75"), FirstNumChar)
  /\ <<"f">> \in DOMAIN outputfiles /\ outputfiles[<<"f">>].data = "d1"

C7_ReturnsStoredName ==
  (result.op = "output_file" /\ result.exc = NoExc)
    => (~result.ret.isnone /\ result.ret.name = result.stored)

\* C7 amended: output_file returns None on every path; the name under which the
\* data is stored, the original filename or the renamed one, is the key of
\* outputfiles that holds the record.
C7_ReturnsNone ==
  (result.op = "output_file" /\ result.exc = NoExc)
    => /\ result.ret.isnone
       /\ result.stored \in DOMAIN outputfiles
       /\ outputfiles[result.stored].md5 = md5_hexdigest(result.data)

\* output_file stored data under a renamed name and returned
C7_Witness ==
  /\ result.op = "output_file" /\ result.exc = NoExc /\ result.kind = "store"
  /\ result.stored # result.filename
  /\ result.stored \in DOMAIN outputfiles

\* C8: on every exit path of run_parser, the failure to read the input
\* included, the log handler is detached, stdout is restored and the managed
\* temporary directory is deleted unless clean-up is disabled, so that no
\* handler of an earlier run is attached when a later run starts.
C8_RunReleasesResources ==
  /\ result.op = "run_parser"
       => /\ root_handlers = {} /\ log_handler = 0
          /\ stdout = "orig"
          /\ managed_tempdir = 0
          /\ ~cfg.disable_temp_cleanup => fs_tempdirs = {}
  /\ pc = "parse" => root_handlers = {log_handler}

\* C9: when the first parser of a run starts, metadata, outputfiles and errors
\* are empty and no managed temporary directory is set, whatever the runs
\* before it on the same reporter left.
C9_RunStartsClean ==
  (pc = "parse" /\ result.op = "__reset")
    => /\ DOMAIN metadata = {} /\ DOMAIN outputfiles = {} /\ errors = <<>>
       /\ managed_tempdir = 0

\* the second run on a reporter starts, the first having made a temporary
\* directory that is still there
C9_Witness ==
  /\ nruns = 2 /\ pc = "parse" /\ result.op = "__reset"
  /\ fs_tempdirs # {}

\* the entries of errors that report parser p as failed
ErrorsNaming(p) ==
  {i \in 1..Len(errors) :
     /\ Len(errors[i]) >= 7
     /\ errors[i][4] = "Error running parser "
     /\ SubSeq(errors[i], 5, 7) = p}

\* C10: whichever parsers raise Exception or SystemExit, run_parser invokes
\* every selected parser in order and does not raise, and at its end errors
\* holds exactly one entry for each parser that raised.
C10_OneErrorPerRaisingPlugin ==
  /\ (result.op = "run_parser" /\ result.exc # NoExc)
       => result.exc \in {"IOError", "KeyboardInterrupt"}
  /\ (result.op = "run_parser" /\ result.exc = NoExc /\ plugins # <<>>)
       => /\ invoked = plugins
          /\ \A i \in 1..Len(plugins) :
               Cardinality(ErrorsNaming(plugins[i])) = IF plugins[i] \in raised THEN 1 ELSE 0

\* a is an initial segment of b
IsPrefix(a, b) == Len(a) <= Len(b) /\ SubSeq(b, 1, Len(a)) = a

\* every entry of md is still in md2: lists only grow at their end, and a
\* sub-key of a mapping keeps the values it held
Grows(md, md2) ==
  \A k \in DOMAIN md :
    /\ k \in DOMAIN md2
    /\ IF k \in DictOfStringsFields
       THEN \A sk \in DOMAIN md[k] :
              /\ sk \in DOMAIN md2[k]
              /\ \A i \in 1..Len(md[k][sk].vals) :
                   \E j \in 1..Len(md2[k][sk].vals) : md2[k][sk].vals[j] = md[k][sk].vals[i]
       ELSE IsPrefix(md[k], md2[k])

\* the list md holds for key
list_of(md, key) == IF key \in DOMAIN md THEN md[key] ELSE <<>>

\* the items of a mapping argument that come before its first value that is
\* no string
StringItemsBefore(items) ==
  {i \in 1..Len(items) : \A j \in 1..i : items[j].isstr}

\* md holds what a call add_metadata(key, value) merges before any cascade rule
\* runs: the (padded) value for a list field, and for a mapping the entries before
\* the first value that is no string
MergedBeforeFailure(md, key, value) ==
  IF key \in ListOfStringsFields
  THEN \E i \in 1..Len(list_of(md, key)) : md[key][i] = convert_to_unicode(value)
  ELSE IF key \in ListOfStringTuplesFields
  THEN \E i \in 1..Len(list_of(md, key)) : md[key][i] = converted_values(key, value)
  ELSE \A i \in StringItemsBefore(value) :
         /\ key \in DOMAIN md
         /\ value[i].k \in DOMAIN md[key]
         /\ \E j \in 1..Len(md[key][value[i].k].vals) : md[key][value[i].k].vals[j] = value[i].v

\* the entry of errors that logger.exception leaves for a failure under key
ErrorAdding(key, exc) == format(ERROR, <<"Error adding metadata for key: ", key>>, exc)

\* C11: for a key of the schema add_metadata never raises to its caller: a
\* failure while the value is merged or a cascade rule is applied (a derived
\* add that fails included) is caught and logged, and what was merged or derived
\* before the failure stays in the store.
C11_KnownKeyNeverRaises ==
  [][(IsReport /\ result'.key \in DOMAIN fields)
       => /\ result'.exc = NoExc
          /\ Grows(metadata, metadata')
          /\ IsPrefix(errors, errors')
          /\ \A i \in (Len(errors) + 1)..Len(errors') :
               SubSeq(errors'[i], 1, 3) = <<"[", level_char(ERROR), "] ">>
          /\ ~result'.empty => MergedBeforeFailure(metadata', result'.key, result'.value)]_vars

\* a socket address whose port is no numeral was reported: the derived add of
\* the port failed and was logged, and the tuple, the address and the port
\* tuple are in the store
C11_Witness ==
  /\ result.op = "add_metadata" /\ result.key = "socketaddress" /\ result.exc = NoExc
  /\ result.value = <<<<"a">>, <<"8", "a">>, <<"t", "c", "p">>>>
  /\ errors # <<>> /\ errors[Len(errors)] = ErrorAdding("port", "ValueError")
  /\ "address" \in DOMAIN metadata
  /\ "port" \in DOMAIN metadata /\ metadata["port"][1] = <<<<"8", "a">>, <<"t", "c", "p">>>>

\* md holds under key exactly the one value v
HoldsOnly(md, key, v) == key \in DOMAIN md /\ md[key] = <<v>>

\* C13: reporting c2_url = scheme://host:port/path on an empty store leaves
\* url with the same value, urlpath with /path, c2_socketaddress and
\* socketaddress with (host, port, "tcp"), c2_address and address with host,
\* and port with (port, "tcp").
C13_C2UrlCascade ==
  [][\A h \in Hosts, p \in Ports, q \in UrlPaths :
       (IsReport /\ result'.key = "c2_url" /\ result'.value = C2Url(h, p, q)
          /\ DOMAIN metadata = {})
         => /\ result'.exc = NoExc
            /\ HoldsOnly(metadata', "c2_url", C2Url(h, p, q))
            /\ HoldsOnly(metadata', "url", C2Url(h, p, q))
            /\ HoldsOnly(metadata', "urlpath", q)
            /\ HoldsOnly(metadata', "c2_socketaddress", <<h, p, <<"t", "c", "p">>>>)
            /\ HoldsOnly(metadata', "socketaddress", <<h, p, <<"t", "c", "p">>>>)
            /\ HoldsOnly(metadata', "c2_address", h)
            /\ HoldsOnly(metadata', "address", h)
            /\ HoldsOnly(metadata', "port", <<p, <<"t", "c", "p">>>>)
            /\ errors' = errors]_vars

\* h://b.c:80/x/y was reported on an empty store and its cascade has run
C13_Witness ==
  /\ result.op = "add_metadata" /\ result.key = "c2_url" /\ ncalls = 1
  /\ result.value = C2Url(<<"b", ".", "c">>, <<"8", "0">>, <<"/", "x", "/", "y">>)
  /\ HoldsOnly(metadata, "c2_socketaddress",
               <<<<"b", ".", "c">>, <<"8", "0">>, <<"t", "c", "p">>>>)
  /\ HoldsOnly(metadata, "urlpath", <<"/", "x", "/", "y">>)

\* md holds v under key, among the values of the list
HoldsValue(md, key, v) == \E i \in 1..Len(list_of(md, key)) : md[key][i] = v

\* C14: reporting a proxy tuple of length 3 (user, password, host) stores the
\* tuple padded with empty strings to length 5 and leaves credential holding
\* (user, password) and proxy_address holding host.
C14_ShortProxyCascade ==
  [][(IsReport /\ result'.key = "proxy" /\ Len(result'.value) = 3)
       => /\ result'.exc = NoExc
          /\ HoldsValue(metadata', "proxy", result'.value \o <<<<>>, <<>>>>)
          /\ ~HoldsValue(metadata', "proxy", result'.value)
          /\ HoldsValue(metadata', "credential", SubSeq(result'.value, 1, 2))
          /\ HoldsValue(metadata', "proxy_address", result'.value[3])
          /\ errors' = errors]_vars

\* (u, p, h) was reported as the proxy, and the host reached proxy_address by
\* way of proxy_socketaddress
C14_Witness ==
  /\ result.op = "add_metadata" /\ result.key = "proxy" /\ ncalls = 1
  /\ result.value = <<<<"u">>, <<"p">>, <<"h">>>>
  /\ HoldsOnly(metadata, "proxy", <<<<"u">>, <<"p">>, <<"h">>, <<>>, <<>>>>)
  /\ HoldsOnly(metadata, "credential", <<<<"u">>, <<"p">>>>)
  /\ HoldsOnly(metadata, "proxy_socketaddress", <<<<"h">>, <<>>, <<>>>>)
  /\ HoldsOnly(metadata, "proxy_address", <<"h">>)

\* the position in v of its last character of seps, 0 when it has none
LastOf(v, seps) ==
  IF \E i \in 1..Len(v) : v[i] \in seps
  THEN CHOOSE i \in 1..Len(v) : v[i] \in seps /\ \A j \in (i + 1)..Len(v) : v[j] \notin seps
  ELSE 0

\* list is old, or old with v appended when v is not empty and not in old
AddedTo(old, v, list) ==
  IF v = <<>> \/ (\E i \in 1..Len(old) : old[i] = v) THEN list = old
  ELSE list = Append(old, v)

\* what a filepath report leaves when its name and its directory are taken to
\* be name and dir
FilepathSplitsInto(name, dir) ==
  /\ result'.exc = NoExc
  /\ AddedTo(list_of(metadata, "filename"), name, list_of(metadata', "filename"))
  /\ AddedTo(list_of(metadata, "directory"), dir, list_of(metadata', "directory"))

\* a report of a filepath that has a backslash
IsBackslashPath ==
  IsReport /\ result'.key = "filepath" /\ LastOf(result'.value, {"\\"}) > 0

\* C15 as stated: reporting filepath dir\name adds filename = the last path
\* component and directory = everything before the last separator; when one of
\* the two parts is empty, only the other is added.
C15_SplitAtLastSeparator ==
  [][IsBackslashPath
       => FilepathSplitsInto(Tail0(result'.value, LastOf(result'.value, {"\\"})),
                             Head0(result'.value, LastOf(result'.value, {"\\"}) - 1))]_vars

\* the directory ntpath gives: what precedes the name with its trailing
\* separators removed, unless only separators come after the drive letter and
\* its colon; these are then kept
DirectoryOf(v, before) ==
  IF Len(RStrip(before, NtSeps)) <= (IF Len(v) >= 2 /\ v[2] = ":" THEN 2 ELSE 0)
  THEN before ELSE RStrip(before, NtSeps)

\* C15, amended: reporting a filepath (a path with no UNC share) adds filename
\* = what follows its last separator, \ or /, and directory = what precedes the
\* name without its trailing separators, a root directory keeping them (c:\e
\* gives c:\, \e gives \); a part that is empty is not added.
C15_SplitAsNtpath ==
  [][(IsReport /\ result'.key = "filepath" /\ ~result'.empty)
       => FilepathSplitsInto(Tail0(result'.value, LastOf(result'.value, NtSeps)),
                             DirectoryOf(result'.value,
                                         Head0(result'.value,
                                               LastOf(result'.value, NtSeps))))]_vars

\* c:\e was reported: the directory is c:\ with its separator, and d\ was
\* reported before it, which added no filename
C15_Witness ==
  /\ result.op = "add_metadata" /\ result.key = "filepath" /\ ncalls = 2
  /\ result.value = <<"c", ":", "\\", "e">>
  /\ metadata["filepath"] = << <<"d", "\\">>, <<"c", ":", "\\", "e">> >>
  /\ metadata["filename"] = << <<"e">> >>
  /\ metadata["directory"] = << <<"d">>, <<"c", ":", "\\">> >>

\* the values md holds under the sub-key sk of other, as a list
vals_of(md, sk) ==
  IF "other" \in DOMAIN md /\ sk \in DOMAIN md["other"] THEN md["other"][sk].vals ELSE <<>>

\* a report of other whose mapping has a value that is a string and one that is not
IsMixedReport ==
  /\ IsReport /\ result'.key = "other" /\ ~result'.empty
  /\ \E i, j \in 1..Len(result'.value) : result'.value[i].isstr /\ ~result'.value[j].isstr

\* C16: in a report of a mapping that holds both string and non-string values,
\* each non-string entry is skipped with a warning (no error, no exception) and
\* every string entry of the call is merged into the store, whatever the
\* iteration order of the entries.
C16_NonStringEntriesSkipped ==
  [][IsMixedReport
       => /\ result'.exc = NoExc
          /\ errors' = errors
          /\ \A i \in 1..Len(result'.value) :
               result'.value[i].isstr
                 => \E j \in 1..Len(vals_of(metadata', result'.value[i].k)) :
                      vals_of(metadata', result'.value[i].k)[j] = result'.value[i].v]_vars

\* the sub-keys other holds in md
subkeys_of(md) == IF "other" \in DOMAIN md THEN DOMAIN md["other"] ELSE {}

\* vals followed by the values the items report for sub-key sk that vals does
\* not hold yet, in the order of the items from item i on; the items after a
\* value whose warning raises are not looked at
RECURSIVE FirstSeen(_, _, _, _)
FirstSeen(vals, items, sk, i) ==
  IF i > Len(items) \/ (~items[i].isstr /\ items[i].subexc # NoExc) THEN vals
  ELSE FirstSeen(IF items[i].isstr /\ items[i].k = sk
                    /\ ~(\E j \in 1..Len(vals) : vals[j] = items[i].v)
                 THEN Append(vals, items[i].v) ELSE vals,
                 items, sk, i + 1)

\* a sub-key holds a single string, or a list of two or more distinct strings
SubKeyShape(e) ==
  IF e.islist THEN Len(e.vals) >= 2 /\ NoDuplicates(e.vals) ELSE Len(e.vals) = 1

tuple_keys(md) == DOMAIN md \cap ListOfStringTuplesFields

\* C18: after any sequence of reports no tuple field holds two equal tuples,
\* the comparison being made after padding; every stored proxy tuple has at
\* least 5 components and every stored rsa_private_key tuple at least 8; and
\* reporting the proxy (u, p, h) when (u, p, h, "", "") is held leaves the one
\* tuple.
C18_TuplesPaddedAndDistinct ==
  /\ [](\A k \in tuple_keys(metadata) :
          /\ NoDuplicates(metadata[k])
          /\ \A i \in 1..Len(metadata[k]) :
               /\ k = "proxy" => Len(metadata[k][i]) >= 5
               /\ k = "rsa_private_key" => Len(metadata[k][i]) >= 8)
  /\ [][(IsReport /\ result'.key \in {"proxy", "rsa_private_key"}
           /\ HoldsValue(metadata, result'.key, pad_values(result'.key, result'.value)))
          => metadata'[result'.key] = metadata[result'.key]]_vars

\* (u, p, h) was reported as the proxy after a proxy report that left
\* (u, p, h, "", ""): the list holds the one padded tuple
C18_Witness ==
  /\ result.op = "add_metadata" /\ result.key = "proxy" /\ ncalls = 2
  /\ result.value = <<<<"u">>, <<"p">>, <<"h">>>>
  /\ metadata["proxy"] = << <<<<"u">>, <<"p">>, <<"h">>, <<>>, <<>>>> >>
  /\ "rsa_private_key" \notin DOMAIN metadata /\ "filepath" \notin DOMAIN metadata
  /\ "c2_url" \notin DOMAIN metadata

\* the fields whose entry the step changes
ChangedFields == {k \in DOMAIN metadata' : k \notin DOMAIN metadata \/ metadata'[k] # metadata[k]}

\* C19: every add_metadata call terminates: the cascade it starts is finite,
\* as no chain of cascade rules leads from a field back to itself, and a
\* report changes only the field reported, the fields its rules lead to, and
\* debug (the log capture, which has no rule).
C19_CascadeIsAcyclic ==
  /\ [](\A k \in DOMAIN fields :
          /\ rule_targets(k) \subseteq DOMAIN fields
          /\ k \notin derived_fields(k))
  /\ [](rule_targets("debug") = {})
  /\ [][IsReport
          => /\ result'.exc \in {NoExc, "KeyError"}
             /\ ChangedFields \subseteq {result'.key} \cup derived_fields(result'.key) \cup {"debug"}]_vars

\* a service was reported: its image path and its dll path led to
\* serviceimage and servicedll, these to filepath, and filepath to filename and
\* directory, chains of three rules
C19_Witness ==
  /\ result.op = "add_metadata" /\ result.key = "service" /\ ncalls = 1
  /\ result.exc = NoExc
  /\ metadata["filepath"] = << <<"c", ":", "\\", "s", ".", "e", "x", "e">>, <<"c", ":", "\\", "l">> >>
  /\ metadata["filename"] = << <<"s", ".", "e", "x", "e">>, <<"l">> >>
  /\ HoldsOnly(metadata, "directory", <<"c", ":", "\\">>)

\* C20: for every reachable outputfiles table and every (data, filename) the
\* rename loop of output_file ends, after at most one attempt per suffix length
\* from 5 to the length of the hash, with a duplicate skip or with an unused
\* name under which the data is stored; output_file never raises because every
\* name it tries is taken by a record with another hash.
C20_RenameLoopNeverFails ==
  [][IsOutput
       => /\ result'.exc # "AssertionError"
          /\ result'.kind \in {"store", "duplicate"}
          /\ result'.kind = "duplicate"
               => /\ result'.stored \in DOMAIN outputfiles
                  /\ outputfiles[result'.stored].md5 = md5_hexdigest(result'.data)
          /\ result'.kind = "store"
               => /\ result'.stored \notin DOMAIN outputfiles
                  /\ result'.stored \in DOMAIN outputfiles'
                  /\ outputfiles'[result'.stored].md5 = md5_hexdigest(result'.data)
                  /\ \/ result'.stored = result'.filename
                     \/ \E k \in FirstNumChar..MaxNumChar :
                          result'.stored
                            = Candidate(result'.filename, md5_hexdigest(result'.data), k)]_vars

\* the place of a line's field in the order of the report: file information,
\* standard fields, the fields left, other, debug, output files, errors
FieldClass(field) ==
  IF InList(INFO_FIELD_ORDER, field) THEN 1
  ELSE IF InList(STANDARD_FIELD_ORDER, field) THEN 2
  ELSE IF field = "other" THEN 4
  ELSE IF field = "debug" THEN 5
  ELSE IF field = "outputfile" THEN 6
  ELSE IF field = "errors" THEN 7
  ELSE 3

\* no line of the text comes after a line of a later class; section headers
\* (field "") are not lines of a field
SectionsInOrder(text) ==
  \A i, j \in 1..Len(text) :
    (i < j /\ text[i].field # "" /\ text[j].field # "")
      => FieldClass(text[i].field) <= FieldClass(text[j].field)

\* the orders in which the keys S can have been inserted
RECURSIVE InsertionOrders(_)
InsertionOrders(S) ==
  IF S = {} THEN {<<>>}
  ELSE UNION {{<<x>> \o o : o \in InsertionOrders(S \ {x})} : x \in S}

\* C12 as stated: in the text of get_output_text the lines of the
\* file-information fields come before those of the standard fields, then the
\* fields left, the other, debug, output-files and errors sections, and two
\* stores with equal content render the same text, for every insertion order.
C12_SameTextForEveryOrder ==
  result.op = "get_output_text"
    => /\ SectionsInOrder(result.text)
       /\ \A o \in InsertionOrders(DOMAIN metadata) :
            get_output_text(metadata, o, errors) = result.text

\* the first line of a field that is in neither order
IsLeftOverLine(l) == l.field # "" /\ FieldClass(l.field) = 3 /\ l.key # <<>>

\* the fields in neither order, in the order of their lines in the text
LeftOverFields(text) ==
  [i \in 1..Len(SelectSeq(text, IsLeftOverLine)) |-> SelectSeq(text, IsLeftOverLine)[i].field]

\* C12, amended: the section order holds for every store and insertion order;
\* two stores with equal content render the same text when the fields of the
\* schema outside the standard order were inserted in the same order, as these
\* are rendered in the order of their insertion.
C12_SectionsInFixedOrder ==
  result.op = "get_output_text"
    => /\ SectionsInOrder(result.text)
       /\ \A o \in InsertionOrders(DOMAIN metadata) :
            SelectSeq(o, IsLeftOver) = SelectSeq(key_order, IsLeftOver)
              => get_output_text(metadata, o, errors) = result.text
       /\ LeftOverFields(result.text) = SelectSeq(key_order, IsLeftOver)

\* the text of a store filled in the order registrypath, mutex, inputfilename:
\* the file information first, then the standard field, then the field left
C12_Witness ==
  /\ result.op = "get_output_text"
  /\ key_order = <<"registrypath", "mutex", "inputfilename">>
  /\ [i \in 1..Len(result.text) |-> result.text[i].field]
       = <<"", "inputfilename", "", "mutex", "registrypath">>

\* a tuple with a component that is not empty
HasComponent(v) == \E i \in 1..Len(v) : v[i] # <<>>

\* md holds what the components present in the tuple v stored under key give:
\* the subfields, and the fields the rule of key derives
DerivedFrom(md, key, v) ==
  /\ \A i \in 1..Len(subfield_map(key)) :
       (i <= Len(v) /\ v[i] # <<>>) => HoldsValue(md, subfield_map(key)[i], v[i])
  /\ key \in {"c2_socketaddress", "proxy_socketaddress"}
       => /\ HoldsValue(md, "socketaddress", v)
          /\ v[1] # <<>>
               => HoldsValue(md, IF key = "c2_socketaddress" THEN "c2_address"
                                 ELSE "proxy_address", v[1])
  /\ key = "socketaddress"
       => /\ v[1] # <<>> => HoldsValue(md, "address", v[1])
          /\ HasComponent(Tail0(v, 1)) => HoldsValue(md, "port", Tail0(v, 1))
  /\ (key \in {"proxy", "ftp"} /\ HasComponent(Head0(v, 2)))
       => HoldsValue(md, "credential", Head0(v, 2))
  /\ (key = "proxy" /\ Len(v) >= 3 /\ v[3] # <<>>)
       => HoldsValue(md, "proxy_address", v[3])
  /\ (key = "ftp" /\ Len(v) >= 3 /\ v[3] # <<>>)
       => HoldsValue(md, "url", v[3])

\* every tuple of the store has its subfields and derived fields in the store
TuplesDerived(md) ==
  \A k \in DOMAIN md \cap ListOfStringTuplesFields :
    \A i \in 1..Len(md[k]) : DerivedFrom(md, k, md[k][i])

\* C21: a tuple with a component that is not empty is never rejected, whatever
\* its length, its port or its protocol: after add_metadata the padded tuple
\* is in the store, and so are the subfields and the derived fields of the
\* components that are present (of the derived tuples too); nothing is raised,
\* no entry of the store is removed and no output file is touched.
C21_MalformedTuplesKept ==
  [][(IsReport /\ result'.key \in ListOfStringTuplesFields /\ ~result'.empty)
       => /\ result'.exc = NoExc
          /\ HoldsValue(metadata', result'.key, converted_values(result'.key, result'.value))
          /\ DerivedFrom(metadata', result'.key,
                         converted_values(result'.key, result'.value))
          /\ TuplesDerived(metadata')
          /\ Grows(metadata, metadata')
          /\ IsPrefix(errors, errors')
          /\ outputfiles' = outputfiles]_vars

\* a proxy of six components was reported in a run: the warnings are debug
\* lines, and the socket address of four components gave the address and a
\* port tuple of three
C21_Witness ==
  /\ result.op = "add_metadata" /\ result.key = "proxy" /\ result.exc = NoExc
  /\ Len(result.value) = 6
  /\ HoldsValue(metadata, "proxy", result.value)
  /\ HoldsValue(metadata, "socketaddress", <<<<"h">>, <<>>, <<>>, <<"x">>>>)
  /\ HoldsValue(metadata, "address", <<"h">>)
  /\ HoldsValue(metadata, "port", <<<<>>, <<>>, <<"x">>>>)
  /\ HoldsValue(metadata, "debug",
                format(WARNING, <<"Expected 5 values in type ", "proxy", ", received ", "6">>,
                       NoExc))

\* the entry of errors that a failed write leaves
IsWriteError(e) ==
  Len(e) > 4 /\ SubSeq(e, 1, 4) = <<"[", level_char(ERROR), "] ", "Failed to write output file: ">>

\* the record of the table has a path entry
HasPath(of, f) == "path" \in DOMAIN of[f]

\* the call stored, under the name its loop ended on, the record of one of the
\* calls made with these contents and this name, without a path, and the
\* outputfile entry of the record is in the store
RecordKept(of, md, c, data, filename, stored) ==
  \E call \in AllOutputCalls :
    /\ call[1] = data /\ call[2] = filename
    /\ stored \in DOMAIN of
    /\ of[stored] = [data |-> data, description |-> call[3], md5 |-> md5_hexdigest(data)]
    /\ HoldsValue(md, "outputfile",
                  <<os_path_basename(stored), call[3], md5_hexdigest(data)>>
                    \o (IF c.base64_output_files THEN <<b64encode(data)>> ELSE <<>>))

\* C22: when the write of the file to disk fails, output_file does not raise,
\* the one error it logs reaches errors once for each handler attached, the
\* record (data, description, md5) is in outputfiles and the outputfile entry
\* is in the store; a record has a path entry exactly if its write to disk
\* succeeded, and no record has one when disable_output_files is set.
C22_WriteFailureKeepsRecord ==
  [][IsOutput
       => /\ result'.write = "failed"
               => /\ result'.exc = NoExc
                  /\ Len(errors') = Len(errors) + Cardinality(root_handlers)
                  /\ IsPrefix(errors, errors')
                  /\ \A i \in (Len(errors) + 1)..Len(errors') : IsWriteError(errors'[i])
                  /\ RecordKept(outputfiles', metadata', cfg, result'.data,
                                result'.filename, result'.stored)
                  /\ ~HasPath(outputfiles', result'.stored)
          /\ \A f \in DOMAIN outputfiles' :
               HasPath(outputfiles', f)
                 <=> IF f \in DOMAIN outputfiles THEN HasPath(outputfiles, f)
                     ELSE result'.write = "ok"
          /\ cfg.disable_output_files
               => \A f \in DOMAIN outputfiles' : ~HasPath(outputfiles', f)]_vars

\* in a run one file was written and the write of a second file failed: the
\* error is in errors, both records are in the table, the first with its path
C22_Witness ==
  /\ result.op = "output_file" /\ result.write = "failed" /\ result.exc = NoExc
  /\ log_handler # 0
  /\ errors # <<>> /\ IsWriteError(errors[Len(errors)])
  /\ result.stored \in DOMAIN outputfiles /\ ~HasPath(outputfiles, result.stored)
  /\ \E f \in DOMAIN outputfiles : HasPath(outputfiles, f)
  /\ Len(list_of(metadata, "outputfile")) = 2

\* C23: reporting c2_socketaddress (h, p, proto) leaves socketaddress holding
\* the same tuple and c2_address holding h; reporting proxy_socketaddress
\* (h, p, proto) leaves socketaddress holding the same tuple and proxy_address
\* holding h; reporting socketaddress (h, p, proto) leaves address holding h and
\* port holding (p, proto); so after any of the three address holds h and port
\* holds (p, proto).
C23_SocketAddressCascade ==
  [][\A h \in Hosts, p \in SocketPorts, q \in SocketProtocols :
       (IsReport /\ result'.key \in SocketFields /\ result'.value = <<h, p, q>>)
         => /\ result'.exc = NoExc
            /\ HoldsValue(metadata', result'.key, <<h, p, q>>)
            /\ result'.key = "c2_socketaddress"
                 => /\ HoldsValue(metadata', "socketaddress", <<h, p, q>>)
                    /\ HoldsValue(metadata', "c2_address", h)
            /\ result'.key = "proxy_socketaddress"
                 => /\ HoldsValue(metadata', "socketaddress", <<h, p, q>>)
                    /\ HoldsValue(metadata', "proxy_address", h)
            /\ HoldsValue(metadata', "address", h)
            /\ HoldsValue(metadata', "port", <<p, q>>)]_vars

\* (b.c, 8, u) was reported as the proxy_socketaddress on an empty store
C23_Witness ==
  /\ result.op = "add_metadata" /\ result.key = "proxy_socketaddress" /\ ncalls = 1
  /\ result.value = <<<<"b", ".", "c">>, <<"8">>, <<"u">>>>
  /\ HoldsOnly(metadata, "proxy_socketaddress", result.value)
  /\ HoldsOnly(metadata, "socketaddress", result.value)
  /\ HoldsOnly(metadata, "proxy_address", <<"b", ".", "c">>)
  /\ HoldsOnly(metadata, "address", <<"b", ".", "c">>)
  /\ HoldsOnly(metadata, "port", <<<<"8">>, <<"u">>>>)
  /\ "c2_address" \notin DOMAIN metadata

\* how many times rule is in the list fired
TimesFired(fired, rule) == Cardinality({i \in 1..Len(fired) : fired[i] = rule})

\* the rules that are more than once in the list fired
FiredAgain(fired) == {fired[i] : i \in {j \in 1..Len(fired) : TimesFired(fired, fired[j]) > 1}}

\* C24 as stated: within one top-level add_metadata call no cascade rule fires
\* more than once, the rules fired by derived adds counted.
C24_EachRuleFiresOnce ==
  [][IsReport => FiredAgain(result'.fired) = {}]_vars

\* C24, amended: within one top-level add_metadata call, the rules fired by
\* derived adds counted, no cascade rule fires more than twice; a report of
\* c2_url fires the url rule twice (for c2_url and for the derived url), and
\* with it the socketaddress rule and the port rule of the tuple each of them
\* derives; a report of service fires the filepath rule twice (for the image
\* and for the dll); every other report fires each rule at most once.
C24_EachRuleFiresAtMostTwice ==
  [][IsReport
       => /\ \A i \in 1..Len(result'.fired) : TimesFired(result'.fired, result'.fired[i]) <= 2
          /\ result'.key = "c2_url"
               => FiredAgain(result'.fired) = {"url", "socketaddress", "port"}
          /\ result'.key = "service" => FiredAgain(result'.fired) \subseteq {"filepath"}
          /\ result'.key \notin {"c2_url", "service"} => FiredAgain(result'.fired) = {}]_vars

\* a c2_url was reported: its cascade has fired the url rule and the
\* socketaddress rule twice each, and the c2_socketaddress rule once
C24_Witness ==
  /\ result.op = "add_metadata" /\ result.key = "c2_url" /\ result.exc = NoExc
  /\ TimesFired(result.fired, "url") = 2
  /\ TimesFired(result.fired, "socketaddress") = 2
  /\ TimesFired(result.fired, "c2_socketaddress") = 1
  /\ HoldsValue(metadata, "socketaddress", <<<<"a">>, <<"8">>, <<"t", "c", "p">>>>)

\* C25 as stated: a proxy tuple with exactly one address component after the
\* two credential components, (user, pass, host), gets proxy_address = host
\* directly and no proxy_socketaddress, and hence no socketaddress, entry is
\* added; a proxy tuple with more components gets proxy_socketaddress with
\* the components that remain.
C25_ProxyHostAloneAddsNoSocketAddress ==
  [][(IsReport /\ result'.key = "proxy")
       => IF Len(result'.value) = 3
          THEN /\ HoldsValue(metadata', "proxy_address", result'.value[3])
               /\ list_of(metadata', "proxy_socketaddress")
                    = list_of(metadata, "proxy_socketaddress")
               /\ list_of(metadata', "socketaddress") = list_of(metadata, "socketaddress")
          ELSE HoldsValue(metadata', "proxy_socketaddress",
                          Tail0(converted_values("proxy", result'.value), 2))]_vars

====
